---- MODULE Spec2Model ----
(***************************************************************************)
(* A model of the Claro interpreter (src/claro.c): the statement           *)
(* dispatcher execute_line, the expression evaluator, the variable store,  *)
(* function invocation, and the two jump buffers (error_buf and            *)
(* function_return_buf) that carry faults and RETURN transfers.            *)
(*                                                                         *)
(* The C call stack is the variable `stack`: one record per activation of  *)
(* execute_line or execute_function.  A jump buffer holds the depth of the *)
(* activation that called setjmp; when that activation returns the buffer  *)
(* is marked stale, and a longjmp through a stale buffer is undefined      *)
(* behaviour.                                                              *)
(*                                                                         *)
(* A line of text is a sequence of whitespace-separated words, each a      *)
(* string of characters.  Numbers are integers: the expressions of the     *)
(* bounded vocabulary divide only exactly or by zero.  A number is stored  *)
(* as the text "%g" prints for it and read back from that text.            *)
(***************************************************************************)
EXTENDS Integers, Sequences, FiniteSets, TLC

VARIABLES
    variables,              \* ctx->variables[0 .. variable_count-1]
    functions,              \* ctx->functions[0 .. function_count-1]
    call_stack,             \* ctx->call_stack[0 .. call_stack_depth-1]
    in_function,            \* ctx->in_function
    function_return_value,  \* ctx->function_return_value
    error_buf,              \* ctx->error_buf: whose setjmp it holds
    function_return_buf,    \* ctx->function_return_buf: whose setjmp it holds
    stack,                  \* the C activations above main/repl, innermost last
    stdin,                  \* number of lines standard input can still supply
    status,                 \* "running", "exited", "crashed" or "hung"
    vocab,                  \* the lines standard input may supply
    declared,               \* history: names given on dispatched FUNCTION lines
    ev                      \* history: what the last step did

vars == <<variables, functions, call_stack, in_function, function_return_value,
          error_buf, function_return_buf, stack, stdin, status, vocab,
          declared, ev>>

----------------------------------------------------------------------------
(* Program constants and model bounds *)

MAX_LINE_LENGTH == 256
MAX_VARIABLES == 100
MAX_FUNCTIONS == 100
MAX_CALL_STACK_DEPTH == 100
MAX_BLOCK_LINES == 100

\* lines standard input supplies before it is exhausted
MaxInput == 5
\* lines standard input supplies in the function specification
MaxInputF == 2
\* nesting depth of activations explored
MaxNest == 320
\* magnitude of the numbers an assignment may store
MaxNum == 110
\* iterations of one loop explored
MaxIters == 4

----------------------------------------------------------------------------
(* Text: characters, numbers, words, tokens *)

\* the numbers an assignment may store
NumRange == (0 - MaxNum) .. MaxNum

Digit == {"0", "1", "2", "3", "4", "5", "6", "7", "8", "9"}
DigitVal == [c \in Digit |-> CHOOSE n \in 0 .. 9 : ToString(n) = c]
Lower == {"a", "b", "c", "d", "e", "f", "g", "h", "i", "j", "k", "l", "m",
          "n", "o", "p", "q", "r", "s", "t", "u", "v", "w", "x", "y", "z"}
UpperChar == [c \in Lower |->
    CASE c = "a" -> "A" [] c = "b" -> "B" [] c = "c" -> "C" [] c = "d" -> "D"
      [] c = "e" -> "E" [] c = "f" -> "F" [] c = "g" -> "G" [] c = "h" -> "H"
      [] c = "i" -> "I" [] c = "j" -> "J" [] c = "k" -> "K" [] c = "l" -> "L"
      [] c = "m" -> "M" [] c = "n" -> "N" [] c = "o" -> "O" [] c = "p" -> "P"
      [] c = "q" -> "Q" [] c = "r" -> "R" [] c = "s" -> "S" [] c = "t" -> "T"
      [] c = "u" -> "U" [] c = "v" -> "V" [] c = "w" -> "W" [] c = "x" -> "X"
      [] c = "y" -> "Y" [] c = "z" -> "Z"]
Upper == {UpperChar[c] : c \in Lower}
\* isalnum(c) || c == '_'
IdentChars == Lower \cup Upper \cup Digit \cup {"_"}

\* the character at position k of s, "" past its end (the terminating NUL)
char(s, k) == IF k >= 1 /\ k <= Len(s) THEN SubSeq(s, k, k) ELSE ""

\* the first n characters of s (all of s when it is shorter)
strn(s, n) == SubSeq(s, 1, IF Len(s) < n THEN Len(s) ELSE n)

\* the first position at or after k of s whose character is not in class C
RECURSIVE run(_, _, _)
run(s, k, C) == IF char(s, k) \in C THEN run(s, k + 1, C) ELSE k

\* the number the digits s[k .. m-1] write, folded onto acc
RECURSIVE decimal(_, _, _, _)
decimal(s, k, m, acc) ==
    IF k >= m THEN acc ELSE decimal(s, k + 1, m, 10 * acc + DigitVal[char(s, k)])

RECURSIVE Pow10(_)
Pow10(n) == IF n <= 0 THEN 1 ELSE 10 * Pow10(n - 1)

\* strtod: [sign] digits [. digits] [e [sign] digits] at the start of s.
\* v is the value, end the position after the number (1 when there is none),
\* exact whether the value is an integer.  The scan is a chain of steps: sg
\* is the position after the sign, ie after the integer digits, fe after the
\* fraction, nf the number of fraction digits, xs the first exponent digit
\* (0 for no exponent), xe the position after the exponent digits.
strtod_value(s, sg, ie, nf, end, mant, shift) ==
    IF ie = sg /\ nf = 0
    THEN [v |-> 0, end |-> 1, exact |-> TRUE]
    ELSE [v |-> (IF char(s, 1) = "-" THEN 0 - 1 ELSE 1)
                * (IF shift >= 0 THEN mant * Pow10(shift)
                                 ELSE mant \div Pow10(0 - shift)),
          end |-> end,
          exact |-> shift >= 0 \/ mant % Pow10(0 - shift) = 0]

strtod_exponent(s, sg, ie, fe, nf, xs, xe) ==
    strtod_value(s, sg, ie, nf,
                 IF xe > xs THEN xe ELSE fe,
                 decimal(s, ie + 1, fe, decimal(s, sg, ie, 0)),
                 (IF xe > xs
                  THEN (IF char(s, fe + 1) = "-" THEN 0 - 1 ELSE 1)
                       * decimal(s, xs, xe, 0)
                  ELSE 0) - nf)

strtod_exponent_start(s, sg, ie, fe, xs) ==
    strtod_exponent(s, sg, ie, fe, IF fe > ie THEN fe - ie - 1 ELSE 0,
                    xs, IF xs = 0 THEN 0 ELSE run(s, xs, Digit))

strtod_fraction(s, sg, ie, fe) ==
    strtod_exponent_start(s, sg, ie, fe,
        IF char(s, fe) \in {"e", "E"}
        THEN (IF char(s, fe + 1) \in {"-", "+"} THEN fe + 2 ELSE fe + 1)
        ELSE 0)

strtod_integer(s, sg, ie) ==
    strtod_fraction(s, sg, ie,
                    IF char(s, ie) = "." THEN run(s, ie + 1, Digit) ELSE ie)

strtod_sign(s, sg) == strtod_integer(s, sg, run(s, sg, Digit))

strtod(s) == strtod_sign(s, IF char(s, 1) \in {"-", "+"} THEN 2 ELSE 1)

\* atof: the leading number of the text, 0.0 when there is none
atof(s) == strtod(s).v

\* atoi: the leading integer of the text
atoi(s) ==
    LET sg == IF char(s, 1) \in {"-", "+"} THEN 2 ELSE 1
        n == decimal(s, sg, run(s, sg, Digit), 0)
    IN IF char(s, 1) = "-" THEN 0 - n ELSE n

\* the number of decimal digits of n > 0
RECURSIVE digits(_)
digits(n) == IF n < 10 THEN 1 ELSE 1 + digits(n \div 10)

\* the decimal of q without its trailing zeros
RECURSIVE strip_zeros(_)
strip_zeros(q) == IF q # 0 /\ q % 10 = 0 THEN strip_zeros(q \div 10) ELSE q

\* snprintf("%g") of an integer n >= 0: six significant digits, round half to
\* even; below 10^6 the plain decimal, from 10^6 on d[.ddddd]e+XX
format_e(ms, e) ==
    char(ms, 1) \o (IF Len(ms) > 1 THEN "." \o SubSeq(ms, 2, Len(ms)) ELSE "")
                \o "e+" \o (IF e < 10 THEN "0" ELSE "") \o ToString(e)
\* q: the six leading digits after rounding, d: the number of digits
format_rounded(q, d) ==
    format_e(ToString(strip_zeros(q)), IF q = 1000000 THEN d ELSE d - 1)
format_scaled(q0, r, scale, d) ==
    format_rounded(IF 2 * r > scale \/ (2 * r = scale /\ q0 % 2 = 1)
                   THEN q0 + 1 ELSE q0, d)
format_digits(n, d) ==
    format_scaled(n \div Pow10(d - 6), n % Pow10(d - 6), Pow10(d - 6), d)
format_g_abs(n) == IF n < 1000000 THEN ToString(n) ELSE format_digits(n, digits(n))

\* snprintf("%g") of an integer
format_g(n) == IF n < 0 THEN "-" \o format_g_abs(0 - n) ELSE format_g_abs(n)

\* toupper of one character
toupper_char(c) == IF c \in Lower THEN UpperChar[c] ELSE c
\* toupper over every character of a word, from position k on
RECURSIVE toupper_from(_, _)
toupper_from(w, k) ==
    IF k > Len(w) THEN "" ELSE toupper_char(char(w, k)) \o toupper_from(w, k + 1)
toupper(w) == toupper_from(w, 1)

\* strcmp of the upper-cased word with an upper-case keyword, and strcasecmp
\* with one: equal lengths first, then the characters
is_keyword(w, word) == Len(w) = Len(word) /\ toupper(w) = word

\* strncmp(tok, "S:", 2) == 0, and the text after the prefix
has_S_prefix(tok) == strn(tok, 2) = "S:"
payload(tok) == SubSeq(tok, 3, Len(tok))

\* the text of a quoted word without its quotes
unquote(w) ==
    SubSeq(w, 2, IF char(w, Len(w)) = "\"" /\ Len(w) > 1 THEN Len(w) - 1 ELSE Len(w))

\* tokenize: one token per word; a quoted word loses its quotes and gains "S:"
tokenize(line) ==
    [i \in 1 .. Len(line) |->
        IF char(line[i], 1) = "\"" THEN "S:" \o unquote(line[i]) ELSE line[i]]

\* the first position at or after k of s that holds a blank, or is past the
\* end of s
RECURSIVE blank_at(_, _)
blank_at(s, k) == IF k > Len(s) \/ char(s, k) = " " THEN k ELSE blank_at(s, k + 1)

\* the words of the text s from position k on: its runs of non-blank characters
RECURSIVE split(_, _)
split(s, k) ==
    IF k > Len(s) THEN <<>>
    ELSE IF char(s, k) = " " THEN split(s, k + 1)
    ELSE <<SubSeq(s, k, blank_at(s, k) - 1)>> \o split(s, blank_at(s, k))

\* the words a token contributes to a text it is copied into: only a token
\* that tokenize took from a quoted word can hold a blank
words_of(tok) == IF has_S_prefix(tok) THEN split(tok, 1) ELSE <<tok>>

RECURSIVE join_from(_, _, _)
join_from(tokens, k, last) ==
    IF k > last THEN <<>>
    ELSE words_of(tokens[k]) \o join_from(tokens, k + 1, last)

\* join_tokens(tokens, start, token_count): tokens[start .. token_count-1]
\* (0-based), joined by single blanks; as text it is again a sequence of
\* words, a blank inside a token separating two of them
join_tokens(tokens, start, token_count) == join_from(tokens, start + 1, token_count)

\* the characters of a line: its words with single blanks between them
RECURSIVE text(_)
text(line) ==
    IF line = <<>> THEN ""
    ELSE IF Len(line) = 1 THEN line[1]
    ELSE line[1] \o " " \o text(Tail(line))

\* trim_whitespace followed by a case-insensitive comparison with a sentinel
is_sentinel(line, word) == Len(line) = 1 /\ is_keyword(line[1], word)

\* The evaluator reads its text character by character; the pieces it takes
\* in one go are a number (strtod), a name (letters, digits, '_'), a
\* two-character comparison operator, or one other character.
at_least_2(k) == IF k > 1 THEN k ELSE 2
lexeme_end(s) ==
    IF char(s, 1) \in Digit \cup {"."} THEN at_least_2(strtod(s).end)
    ELSE IF char(s, 1) \in IdentChars THEN run(s, 1, IdentChars)
    ELSE IF strn(s, 2) \in {"==", "!=", "<=", ">="} THEN 3
    ELSE 2

RECURSIVE lex(_)
lex_cut(s, e) == <<SubSeq(s, 1, e - 1)>> \o lex(SubSeq(s, e, Len(s)))
lex(s) == IF s = "" THEN <<>> ELSE lex_cut(s, lexeme_end(s))

\* the pieces of an expression given as words
RECURSIVE lexemes(_)
lexemes(words) ==
    IF words = <<>> THEN <<>> ELSE lex(words[1]) \o lexemes(Tail(words))

----------------------------------------------------------------------------
(* Variable store *)

\* the loop over ctx->variables: the first entry of that name, 0 for none
VarIndex(store, name) ==
    LET S == {i \in 1 .. Len(store) : store[i].name = name} IN
    IF S = {} THEN 0 ELSE CHOOSE i \in S : \A j \in S : i <= j

\* get_variable: the value text, or NULL
NULL == "<NULL>"
get_variable(store, name) ==
    IF VarIndex(store, name) = 0 THEN NULL ELSE store[VarIndex(store, name)].value

\* set_variable with the bug of appending without looking the name up
set_variable_appends(store, name, value, type) ==
    IF Len(store) < MAX_VARIABLES
    THEN Append(store, [name |-> name, type |-> type, value |-> value])
    ELSE store

\* set_variable with the bug of reusing the last slot when the store is full
set_variable_overwrites_last(store, name, value, type) ==
    IF VarIndex(store, name) # 0
    THEN [store EXCEPT ![VarIndex(store, name)] =
              [name |-> name, type |-> type, value |-> value]]
    ELSE IF Len(store) < MAX_VARIABLES
         THEN Append(store, [name |-> name, type |-> type, value |-> value])
         ELSE [store EXCEPT ![Len(store)] =
                   [name |-> name, type |-> type, value |-> value]]

set_variable(store, name, value, type) ==
    IF VarIndex(store, name) # 0
    THEN [store EXCEPT ![VarIndex(store, name)] =
              [name |-> name, type |-> type, value |-> value]]
    ELSE IF Len(store) < MAX_VARIABLES
         THEN Append(store, [name |-> name, type |-> type, value |-> value])
         ELSE store

----------------------------------------------------------------------------
(* Expression evaluator: recursive descent over the lexemes of the text.   *)
(* A result is [v, p, ok, fault]: the value, the position reached, whether *)
(* a value was produced, and whether longjmp(error_buf) was taken instead. *)

Val(v, p) == [v |-> v, p |-> p, ok |-> TRUE, fault |-> FALSE]
EvalFault(p) == [v |-> 0, p |-> p, ok |-> FALSE, fault |-> TRUE]
\* a quotient that is no integer lies outside the numbers of this model
Inexact(p) == [v |-> 0, p |-> p, ok |-> FALSE, fault |-> FALSE]
\* the value of a number strtod read
Literal(d, p) == IF d.exact THEN Val(d.v, p) ELSE Inexact(p)

\* strncasecmp(str, "true", 4) == 0 and strncasecmp(str, "false", 5) == 0
TrueWords == {a \o b \o c \o d : a \in {"t", "T"}, b \in {"r", "R"},
              c \in {"u", "U"}, d \in {"e", "E"}}
FalseWords == {a \o b \o c \o d \o e : a \in {"f", "F"}, b \in {"a", "A"},
               c \in {"l", "L"}, d \in {"s", "S"}, e \in {"e", "E"}}
MulOps == {"*", "/"}
AddOps == {"+", "-"}
CmpOps == {"==", "!=", "<=", ">=", "<", ">"}
\* isdigit(**str) || **str == '.'
is_number(w) == char(w, 1) \in Digit \cup {"."}
\* a piece that starts with a character no name holds: the name read is empty
NonIdent(w) == char(w, 1) \notin IdentChars

Abs(n) == IF n < 0 THEN 0 - n ELSE n
Divides(d, n) == Abs(n) % Abs(d) = 0
\* n / d for a divisor d # 0 that divides n
Quotient(n, d) ==
    IF (n < 0) = (d < 0) THEN Abs(n) \div Abs(d) ELSE 0 - (Abs(n) \div Abs(d))

Compare(op, l, r) ==
    CASE op = "==" -> IF l = r THEN 1 ELSE 0
      [] op = "!=" -> IF l # r THEN 1 ELSE 0
      [] op = "<=" -> IF l <= r THEN 1 ELSE 0
      [] op = ">=" -> IF l >= r THEN 1 ELSE 0
      [] op = "<" -> IF l < r THEN 1 ELSE 0
      [] op = ">" -> IF l > r THEN 1 ELSE 0

\* The four parsing functions and their while loops, as one recursive
\* operator: fn names the function ("factor", "term", "expression",
\* "comparison") or the loop of one of them, which carries the value folded
\* so far in acc.
RECURSIVE parse(_, _, _, _, _)
parse(fn, s, acc, p, store) ==
    CASE fn = "factor" ->
           IF p > Len(s) THEN Val(0, p)
           ELSE IF s[p] \in TrueWords THEN Val(1, p + 1)
           ELSE IF s[p] \in FalseWords THEN Val(0, p + 1)
           ELSE IF s[p] = "("
                THEN LET r == parse("comparison", s, 0, p + 1, store) IN
                     IF ~r.ok THEN r
                     ELSE IF r.p <= Len(s) /\ s[r.p] = ")"
                          THEN Val(r.v, r.p + 1)
                          ELSE EvalFault(r.p)
           ELSE IF is_number(s[p]) THEN Literal(strtod(s[p]), p + 1)
           ELSE IF NonIdent(s[p]) THEN Val(0, p)
           ELSE LET val == get_variable(store, s[p]) IN
                Val(IF val = NULL THEN 0 ELSE atof(val), p + 1)
      [] fn = "term" ->
           LET r == parse("factor", s, 0, p, store) IN
           IF ~r.ok THEN r ELSE parse("term_loop", s, r.v, r.p, store)
      [] fn = "term_loop" ->
           IF p <= Len(s) /\ s[p] \in MulOps
           THEN LET rhs == parse("factor", s, 0, p + 1, store) IN
                IF ~rhs.ok THEN rhs
                ELSE IF s[p] = "*"
                     THEN parse("term_loop", s, acc * rhs.v, rhs.p, store)
                ELSE IF rhs.v = 0 THEN EvalFault(rhs.p)
                ELSE IF ~Divides(rhs.v, acc) THEN Inexact(rhs.p)
                ELSE parse("term_loop", s, Quotient(acc, rhs.v), rhs.p, store)
           ELSE Val(acc, p)
      [] fn = "expression" ->
           LET r == parse("term", s, 0, p, store) IN
           IF ~r.ok THEN r ELSE parse("expression_loop", s, r.v, r.p, store)
      [] fn = "expression_loop" ->
           IF p <= Len(s) /\ s[p] \in AddOps
           THEN LET rhs == parse("term", s, 0, p + 1, store) IN
                IF ~rhs.ok THEN rhs
                ELSE IF s[p] = "+"
                     THEN parse("expression_loop", s, acc + rhs.v, rhs.p, store)
                     ELSE parse("expression_loop", s, acc - rhs.v, rhs.p, store)
           ELSE Val(acc, p)
      [] fn = "comparison" ->
           LET r == parse("expression", s, 0, p, store) IN
           IF ~r.ok THEN r ELSE parse("comparison_loop", s, r.v, r.p, store)
      [] fn = "comparison_loop" ->
           IF p <= Len(s) /\ s[p] \in CmpOps
           THEN LET right == parse("expression", s, 0, p + 1, store) IN
                IF ~right.ok THEN right
                ELSE parse("comparison_loop", s, Compare(s[p], acc, right.v),
                           right.p, store)
           ELSE Val(acc, p)

parse_factor(s, p, store) == parse("factor", s, 0, p, store)
parse_term(s, p, store) == parse("term", s, 0, p, store)
parse_expression(s, p, store) == parse("expression", s, 0, p, store)
parse_comparison(s, p, store) == parse("comparison", s, 0, p, store)

\* evaluate_expression with the bug of starting below the comparison level
evaluate_expression_additive(expr, store) ==
    parse_expression(lexemes(expr), 1, store)

evaluate_expression(expr, store) == parse_comparison(lexemes(expr), 1, store)

----------------------------------------------------------------------------
(* Activations and jump buffers *)

\* char command[]: tokens[0] of the line, upper-cased ("" for an empty line)
command_of(line) == IF line = <<>> THEN "" ELSE toupper(tokenize(line)[1])

\* an activation of execute_line(line), about to run its first statement.
\* tokens and command are the locals of those names; loop holds the locals of the FOR branch; iters, lines, faulted and snap are
\* history: the value each started iteration saw, the number of nested
\* execute_line calls made, and what TRY and REPEAT found when they began.
NewLine(line) ==
    [kind |-> "line", pc |-> "start", line |-> line,
     tokens |-> tokenize(line), command |-> command_of(line),
     block |-> <<>>, i |-> 0, n |-> 0, f |-> 0, mark |-> 0, pre |-> <<>>,
     faulted |-> FALSE, snap |-> <<>>, loop |-> <<>>, iters |-> <<>>,
     lines |-> 0]

\* an activation of execute_function(f, args) entering its body loop;
\* mark is local_scope_start, pre the store before the parameters were bound
NewCall(f, mark, pre) ==
    [kind |-> "fn", pc |-> "body", line |-> <<>>, tokens |-> <<>>, command |-> "",
     block |-> <<>>, i |-> 0, n |-> 0, f |-> f, mark |-> mark, pre |-> pre,
     faulted |-> FALSE, snap |-> <<>>, loop |-> <<>>, iters |-> <<>>,
     lines |-> 0]

Top == stack[Len(stack)]
Tokens == Top.tokens
Command == Top.command
AtStart == status = "running" /\ stack # <<>> /\ Top.kind = "line" /\ Top.pc = "start"
At(pc) == status = "running" /\ stack # <<>> /\ Top.kind = "line" /\ Top.pc = pc

Stale == [depth |-> 0, at |-> "stale"]
\* setjmp by the innermost activation
SelfBuf(at) == [depth |-> Len(stack), at |-> at]
\* a jump buffer once the activations above depth n have returned
Settle(buf, n) == IF buf.depth > n THEN Stale ELSE buf

Return(stk) == SubSeq(stk, 1, Len(stk) - 1)

\* the innermost activation of stk, at or below depth k, of that kind and at
\* one of those positions; 0 when there is none
RECURSIVE InnermostFrom(_, _, _, _)
InnermostFrom(stk, k, kind, pcs) ==
    IF k = 0 THEN 0
    ELSE IF stk[k].kind = kind /\ stk[k].pc \in pcs THEN k
    ELSE InnermostFrom(stk, k - 1, kind, pcs)

Innermost(stk, kind, pcs) == InnermostFrom(stk, Len(stk), kind, pcs)

ActiveTry(stk) == Innermost(stk, "line", {"try_block"})
ActiveFn(stk) == Innermost(stk, "fn", {"body", "returned"})

\* NewCall keeps in n the call stack depth the invocation found (history).

\* history: the TRY activation whose body was running when a fault was raised
mark_try_faulted(after, before) ==
    IF ActiveTry(before) # 0 /\ ActiveTry(before) <= Len(after)
    THEN [after EXCEPT ![ActiveTry(before)].faulted = TRUE]
    ELSE after

\* fgets(stdin): end of input, or one of the lines input can supply
fgets == {[eof |-> TRUE, line |-> <<>>]} \cup
         (IF stdin > 0 THEN {[eof |-> FALSE, line |-> l] : l \in vocab} ELSE {})

Snapshot == [variables |-> variables, functions |-> functions,
             call_stack |-> call_stack]

----------------------------------------------------------------------------
(* longjmp(ctx->error_buf, 1): where a raised fault lands.                 *)
(* Through a buffer whose activation has returned the behaviour is         *)
(* undefined: the process crashes, or resumes in the dead activation and   *)
(* never dispatches another line.                                          *)

\* longjmp_error with the bug of a fault reaching the boundary of main
longjmp_error_to_main(buf, stk) == {[stack |-> <<>>, status |-> "exited"]}

longjmp_error(buf, stk) ==
    IF buf.at = "line"
    THEN \* execute_line: print "skipping this command", return
         {[stack |-> SubSeq(stk, 1, buf.depth - 1), status |-> "running"]}
    ELSE IF buf.at = "try"
    THEN \* the TRY branch's else arm: collect and run the CATCH block
         {[stack |-> [SubSeq(stk, 1, buf.depth) EXCEPT
                        ![buf.depth].pc = "catch_collect",
                        ![buf.depth].block = <<>>, ![buf.depth].i = 0],
           status |-> "running"]}
    ELSE IF buf.at = "main"
    THEN \* main: "An unrecoverable error occurred", exit(1)
         {[stack |-> <<>>, status |-> "exited"]}
    ELSE {[stack |-> stk, status |-> "crashed"], [stack |-> stk, status |-> "hung"]}

\* a fault raised by the innermost activation while it runs command cmd
Raise(buf, cmd) ==
    \E o \in longjmp_error(buf, stack) :
        /\ stack' = mark_try_faulted(o.stack, stack)
        /\ status' = o.status
        /\ error_buf' = Settle(buf, Len(o.stack))
        /\ function_return_buf' = Settle(function_return_buf, Len(o.stack))
        /\ ev' = [type |-> "fault", cmd |-> cmd, pre |-> Snapshot, stack |-> stack,
                  fn |-> ActiveFn(stack), try |-> ActiveTry(stack),
                  value |-> function_return_value]
        /\ UNCHANGED <<variables, functions, call_stack, in_function,
                       function_return_value, stdin, vocab, declared>>

\* history: what the caller of the innermost activation is doing
Parent(stk) == IF Len(stk) < 2 THEN "repl" ELSE stk[Len(stk) - 1].pc

\* execute_line returns to its caller, having run command cmd
LineReturns(cmd, what) ==
    /\ stack' = Return(stack)
    /\ error_buf' = Settle(SelfBuf("line"), Len(stack) - 1)
    /\ function_return_buf' = Settle(function_return_buf, Len(stack) - 1)
    /\ ev' = [type |-> what, cmd |-> cmd, line |-> Top.line,
              fn |-> ActiveFn(stack), parent |-> Parent(stack)]
    /\ UNCHANGED <<status, stdin, vocab>>

\* execute_line dispatches the nested command text line and goes on at pc
Dispatch(line, pc, i) ==
    /\ Len(stack) < MaxNest
    /\ stack' = Append([stack EXCEPT ![Len(stack)].pc = pc, ![Len(stack)].i = i,
                                      ![Len(stack)].lines = @ + 1],
                       NewLine(line))
    /\ ev' = [type |-> "dispatch", line |-> line, by |-> Top.pc]

----------------------------------------------------------------------------
(* The driver *)

\* repl: read a line and hand it to execute_line; end of input ends the run
ReplRead ==
    /\ status = "running"
    /\ stack = <<>>
    /\ \E r \in fgets :
          IF r.eof
          THEN /\ status' = "exited"
               /\ stdin' = 0
               /\ ev' = [type |-> "eof"]
               /\ UNCHANGED stack
          ELSE /\ stack' = <<NewLine(r.line)>>
               /\ stdin' = stdin - 1
               /\ ev' = [type |-> "read", line |-> r.line]
               /\ UNCHANGED status
    /\ UNCHANGED <<variables, functions, call_stack, in_function,
                   function_return_value, error_buf, function_return_buf,
                   vocab, declared>>

----------------------------------------------------------------------------
(* execute_line: the branches of the dispatcher.  Every branch starts      *)
(* after setjmp(ctx->error_buf) at the top of execute_line.                *)

IsSet == Len(Tokens) >= 4 /\ Command \in {"VARIABLE", "SET"}
IsRepeat == Len(Tokens) >= 3 /\ Command = "REPEAT"
IsIf == Len(Tokens) >= 1 /\ Command = "IF"
IsWhile == Len(Tokens) >= 1 /\ Command = "WHILE"
IsTry == Len(Tokens) >= 1 /\ Command = "TRY"
IsCall == Len(Tokens) >= 2 /\ Command = "CALL"
IsReturn == Len(Tokens) >= 2 /\ Command = "RETURN"

\* SET/VARIABLE <name> = <expression>
ExecSet ==
    /\ AtStart /\ IsSet
    /\ IF Tokens[3] # "="
       THEN /\ LineReturns("SET", "usage")
            /\ UNCHANGED variables
       ELSE IF has_S_prefix(Tokens[4]) /\ Len(Tokens) = 4
       THEN /\ variables' = set_variable(variables, Tokens[2], payload(Tokens[4]),
                                         "TYPE_STRING")
            /\ LineReturns("SET", "done")
       ELSE LET r == evaluate_expression(join_tokens(Tokens, 3, Len(Tokens)), variables) IN
            IF r.fault
            THEN Raise(SelfBuf("line"), "SET")
            ELSE /\ r.ok /\ r.v \in NumRange
                 /\ variables' = set_variable(variables, Tokens[2], format_g(r.v),
                                              "TYPE_FLOAT")
                 /\ LineReturns("SET", "done")
    /\ UNCHANGED <<functions, call_stack, in_function, function_return_value,
                   vocab, declared, stdin>>

\* REPEAT <count> <command>: the count is checked and the command text joined
ExecRepeat ==
    /\ AtStart /\ IsRepeat
    /\ IF atoi(Tokens[2]) <= 0
       THEN LineReturns("REPEAT", "usage")
       ELSE /\ stack' = [stack EXCEPT ![Len(stack)].pc = "repeat",
                                      ![Len(stack)].i = 0,
                                      ![Len(stack)].n = atoi(Tokens[2]),
                                      ![Len(stack)].snap = <<Snapshot>>]
            /\ error_buf' = SelfBuf("line")
            /\ ev' = [type |-> "enter", cmd |-> "REPEAT"]
            /\ UNCHANGED <<function_return_buf, status, stdin, vocab>>
    /\ UNCHANGED <<variables, functions, call_stack, in_function,
                   function_return_value, declared>>

\* RepeatStep with the bug of a loop test i <= count
RepeatStep_once_more ==
    /\ At("repeat")
    /\ IF Top.i <= Top.n
       THEN /\ Dispatch(join_tokens(Tokens, 2, Len(Tokens)), "repeat", Top.i + 1)
            /\ UNCHANGED <<error_buf, function_return_buf, status, stdin, vocab>>
       ELSE /\ stack' = Return(stack)
            /\ error_buf' = Settle(error_buf, Len(stack) - 1)
            /\ function_return_buf' = Settle(function_return_buf, Len(stack) - 1)
            /\ ev' = [type |-> "done", cmd |-> "REPEAT", line |-> Top.line,
                      lines |-> Top.lines, snap |-> Top.snap[1]]
            /\ UNCHANGED <<status, stdin, vocab>>
    /\ UNCHANGED <<variables, functions, call_stack, in_function,
                   function_return_value, declared>>

\* the loop of REPEAT: one nested execute_line per iteration
RepeatStep ==
    /\ At("repeat")
    /\ IF Top.i < Top.n
       THEN /\ Dispatch(join_tokens(Tokens, 2, Len(Tokens)), "repeat", Top.i + 1)
            /\ UNCHANGED <<error_buf, function_return_buf, status, stdin, vocab>>
       ELSE /\ stack' = Return(stack)
            /\ error_buf' = Settle(error_buf, Len(stack) - 1)
            /\ function_return_buf' = Settle(function_return_buf, Len(stack) - 1)
            /\ ev' = [type |-> "done", cmd |-> "REPEAT", line |-> Top.line,
                      lines |-> Top.lines, snap |-> Top.snap[1]]
            /\ UNCHANGED <<status, stdin, vocab>>
    /\ UNCHANGED <<variables, functions, call_stack, in_function,
                   function_return_value, declared>>

\* the scan of an IF line for THEN, ELSE and ENDIF (positions, 0 for none):
\* the scan stops at the first ENDIF
Positions(tokens, word, last) ==
    {k \in 2 .. last : is_keyword(tokens[k], word)}
First(S) == IF S = {} THEN 0 ELSE CHOOSE k \in S : \A j \in S : k <= j
endif_idx(tokens) == First(Positions(tokens, "ENDIF", Len(tokens)))
ScanEnd(tokens) == IF endif_idx(tokens) = 0 THEN Len(tokens) ELSE endif_idx(tokens)
then_idx(tokens) == First(Positions(tokens, "THEN", ScanEnd(tokens)))
else_idx(tokens) == First(Positions(tokens, "ELSE", ScanEnd(tokens)))

\* IF <cond> THEN <cmd> [ELSE <cmd>] ENDIF
ExecIf ==
    /\ AtStart /\ IsIf
    /\ LET th == then_idx(Tokens)
           el == else_idx(Tokens)
           en == endif_idx(Tokens)
       IN
       IF th = 0 \/ en = 0
       THEN LineReturns("IF", "usage")
       ELSE LET r == evaluate_expression(join_tokens(Tokens, 1, th - 1), variables) IN
            IF r.fault
            THEN Raise(SelfBuf("line"), "IF")
            ELSE IF ~r.ok THEN FALSE
            ELSE IF r.v # 0
            THEN /\ Dispatch(join_tokens(Tokens, th, (IF el = 0 THEN en ELSE el) - 1),
                             "if_done", 0)
                 /\ error_buf' = SelfBuf("line")
                 /\ UNCHANGED <<function_return_buf, status, stdin, vocab>>
            ELSE IF el # 0
            THEN /\ Dispatch(join_tokens(Tokens, el, en - 1), "if_done", 0)
                 /\ error_buf' = SelfBuf("line")
                 /\ UNCHANGED <<function_return_buf, status, stdin, vocab>>
            ELSE LineReturns("IF", "done")
    /\ UNCHANGED <<variables, functions, call_stack, in_function,
                   function_return_value, declared>>

\* IF after its branch command returned
IfDone ==
    /\ At("if_done")
    /\ stack' = Return(stack)
    /\ error_buf' = Settle(error_buf, Len(stack) - 1)
    /\ function_return_buf' = Settle(function_return_buf, Len(stack) - 1)
    /\ ev' = [type |-> "done", cmd |-> "IF", line |-> Top.line]
    /\ UNCHANGED <<variables, functions, call_stack, in_function,
                   function_return_value, declared, status, stdin, vocab>>

----------------------------------------------------------------------------
(* WHILE <cond> BEGIN ... ENDWHILE *)

begin_idx(tokens) == First(Positions(tokens, "BEGIN", Len(tokens)))
while_cond(tokens) == join_from(tokens, 2, begin_idx(tokens) - 1)

ExecWhile ==
    /\ AtStart /\ IsWhile
    /\ IF begin_idx(Tokens) = 0
       THEN LineReturns("WHILE", "usage")
       ELSE /\ stack' = [stack EXCEPT ![Len(stack)].pc = "while_collect",
                                      ![Len(stack)].block = <<>>]
            /\ error_buf' = SelfBuf("line")
            /\ ev' = [type |-> "enter", cmd |-> "WHILE"]
            /\ UNCHANGED <<function_return_buf, status, stdin, vocab>>
    /\ UNCHANGED <<variables, functions, call_stack, in_function,
                   function_return_value, declared>>

\* a block-collection loop: fgets until the sentinel or the end of input;
\* the activation goes on at pc next once the block is complete.  The line
\* is stored at index block_line_count of an array of MAX_BLOCK_LINES
\* elements without a test of the index: a store past the last element is
\* undefined behaviour, after which the run goes on, crashes or hangs
Collect(sentinel, next) ==
    \E r \in fgets :
        /\ IF r.eof \/ is_sentinel(r.line, sentinel)
           THEN /\ stack' = [stack EXCEPT ![Len(stack)].pc = next, ![Len(stack)].i = 0]
                /\ UNCHANGED status
           ELSE /\ stack' = [stack EXCEPT ![Len(stack)].block = Append(@, r.line)]
                /\ status' \in IF Len(Top.block) < MAX_BLOCK_LINES
                                THEN {status}
                                ELSE {status, "crashed", "hung"}
        /\ stdin' = IF r.eof THEN 0 ELSE stdin - 1
        /\ ev' = [type |-> "collect", eof |-> r.eof, line |-> r.line]

\* WhileCollect with the bug of a do-while: the block runs before the first test
WhileCollect_body_first ==
    /\ At("while_collect")
    /\ Collect("ENDWHILE", "while_body")
    /\ UNCHANGED <<variables, functions, call_stack, in_function,
                   function_return_value, error_buf, function_return_buf,
                   vocab, declared>>

WhileCollect ==
    /\ At("while_collect")
    /\ Collect("ENDWHILE", "while_test")
    /\ UNCHANGED <<variables, functions, call_stack, in_function,
                   function_return_value, error_buf, function_return_buf,
                   vocab, declared>>

\* while (evaluate_expression(cond_expr, ctx)): the jump buffer a fault goes
\* through is whatever the last setjmp left in ctx->error_buf
WhileTest ==
    /\ At("while_test")
    /\ LET r == evaluate_expression(while_cond(Tokens), variables) IN
       IF r.fault
       THEN Raise(error_buf, "WHILE")
       ELSE IF ~r.ok THEN FALSE
       ELSE IF r.v # 0
       THEN /\ Len(Top.iters) < MaxIters
            /\ stack' = [stack EXCEPT ![Len(stack)].pc = "while_body",
                                      ![Len(stack)].i = 0,
                                      ![Len(stack)].iters = Append(@, r.v)]
            /\ ev' = [type |-> "iterate", cmd |-> "WHILE"]
            /\ UNCHANGED <<error_buf, function_return_buf, status, stdin, vocab>>
       ELSE /\ stack' = Return(stack)
            /\ error_buf' = Settle(error_buf, Len(stack) - 1)
            /\ function_return_buf' = Settle(function_return_buf, Len(stack) - 1)
            /\ ev' = [type |-> "done", cmd |-> "WHILE", line |-> Top.line,
                      iters |-> Top.iters, lines |-> Top.lines,
                      block |-> Top.block]
            /\ UNCHANGED <<status, stdin, vocab>>
    /\ UNCHANGED <<variables, functions, call_stack, in_function,
                   function_return_value, declared>>

\* execute_block: the lines of a collected block, one execute_line each;
\* after the last one the owner goes on at pc next
execute_block(here, next) ==
    IF Top.i < Len(Top.block)
    THEN Dispatch(Top.block[Top.i + 1], here, Top.i + 1)
    ELSE /\ stack' = [stack EXCEPT ![Len(stack)].pc = next, ![Len(stack)].i = 0,
                                   ![Len(stack)].snap = <<Snapshot>>]
         /\ ev' = [type |-> "block_done", by |-> here]

WhileBody ==
    /\ At("while_body")
    /\ execute_block("while_body", "while_test")
    /\ UNCHANGED <<variables, functions, call_stack, in_function,
                   function_return_value, error_buf, function_return_buf,
                   status, stdin, vocab, declared>>

----------------------------------------------------------------------------
(* FOR <var> = <start> TO <end> [STEP <step>] BEGIN ... ENDFOR *)

IsFor == Len(Tokens) >= 1 /\ Command = "FOR"

\* a malformed header: print_error, and execute_line returns
ForUsage == LineReturns("FOR", "usage")

\* the header: start, end and step are evaluated, each from one token
ExecFor ==
    /\ AtStart /\ IsFor
    /\ LET t == Tokens
           n == Len(Tokens)
       IN
       IF n < 7 THEN ForUsage
       ELSE IF t[3] # "=" THEN ForUsage
       ELSE LET start_val == evaluate_expression(<<t[4]>>, variables) IN
       IF start_val.fault THEN Raise(SelfBuf("line"), "FOR")
       ELSE IF ~start_val.ok THEN FALSE
       ELSE IF ~is_keyword(t[5], "TO") THEN ForUsage
       ELSE LET end_val == evaluate_expression(<<t[6]>>, variables) IN
       IF end_val.fault THEN Raise(SelfBuf("line"), "FOR")
       ELSE IF ~end_val.ok THEN FALSE
       ELSE IF is_keyword(t[7], "STEP") /\ n < 8 THEN ForUsage
       ELSE LET step_val == IF is_keyword(t[7], "STEP")
                            THEN evaluate_expression(<<t[8]>>, variables)
                            ELSE Val(1, 1)
                idx == IF is_keyword(t[7], "STEP") THEN 9 ELSE 7
            IN
       IF step_val.fault THEN Raise(SelfBuf("line"), "FOR")
       ELSE IF ~step_val.ok THEN FALSE
       ELSE IF idx > n \/ ~is_keyword(t[IF idx > n THEN n ELSE idx], "BEGIN") THEN ForUsage
       ELSE /\ stack' = [stack EXCEPT
                           ![Len(stack)].pc = "for_collect",
                           ![Len(stack)].block = <<>>,
                           ![Len(stack)].loop = [start |-> start_val.v,
                                                 end |-> end_val.v,
                                                 step |-> step_val.v,
                                                 cur |-> 0]]
            /\ error_buf' = SelfBuf("line")
            /\ ev' = [type |-> "enter", cmd |-> "FOR"]
            /\ UNCHANGED <<function_return_buf, status, stdin, vocab>>
    /\ UNCHANGED <<variables, functions, call_stack, in_function,
                   function_return_value, declared>>

\* the block is collected up to ENDFOR, then the loop variable is set to the
\* text of the start value
ForCollect ==
    /\ At("for_collect")
    /\ Collect("ENDFOR", "for_test")
    /\ variables' = IF stack'[Len(stack)].pc = "for_test"
                    THEN set_variable(variables, Tokens[2],
                                      format_g(Top.loop.start), "TYPE_FLOAT")
                    ELSE variables
    /\ UNCHANGED <<functions, call_stack, in_function, function_return_value,
                   error_buf, function_return_buf, vocab, declared>>

\* bool condition_met = (step_val > 0) ? (current_val <= end_val)
\*                                     : (current_val >= end_val)
condition_met(loop, current_val) ==
    IF loop.step > 0 THEN current_val <= loop.end ELSE current_val >= loop.end

\* the top of the loop: the variable is read back from the store; atof of the
\* NULL that get_variable returns for a missing name is undefined behaviour
ForTest ==
    /\ At("for_test")
    /\ LET current_str == get_variable(variables, Tokens[2])
           current_val == atof(current_str)
       IN
       IF current_str = NULL
       THEN /\ status' \in {"crashed", "hung"}
            /\ ev' = [type |-> "null", cmd |-> "FOR"]
            /\ UNCHANGED <<stack, error_buf, function_return_buf>>
       ELSE IF condition_met(Top.loop, current_val)
       THEN /\ Len(Top.iters) < MaxIters
            /\ stack' = [stack EXCEPT ![Len(stack)].pc = "for_body",
                                      ![Len(stack)].i = 0,
                                      ![Len(stack)].loop.cur = current_val,
                                      ![Len(stack)].iters = Append(@, current_val)]
            /\ ev' = [type |-> "iterate", cmd |-> "FOR"]
            /\ UNCHANGED <<status, error_buf, function_return_buf>>
       ELSE /\ stack' = Return(stack)
            /\ error_buf' = Settle(error_buf, Len(stack) - 1)
            /\ function_return_buf' = Settle(function_return_buf, Len(stack) - 1)
            /\ ev' = [type |-> "done", cmd |-> "FOR", line |-> Top.line,
                      iters |-> Top.iters, lines |-> Top.lines,
                      block |-> Top.block, loop |-> Top.loop]
            /\ UNCHANGED status
    /\ UNCHANGED <<variables, functions, call_stack, in_function,
                   function_return_value, stdin, vocab, declared>>

ForBody ==
    /\ At("for_body")
    /\ execute_block("for_body", "for_step")
    /\ UNCHANGED <<variables, functions, call_stack, in_function,
                   function_return_value, error_buf, function_return_buf,
                   status, stdin, vocab, declared>>

\* current_val += step_val, the value read before the block ran; its text
\* replaces whatever the store holds for the loop variable
ForStep ==
    /\ At("for_step")
    /\ LET current_val == Top.loop.cur + Top.loop.step IN
       /\ variables' = set_variable(variables, Tokens[2], format_g(current_val),
                                    "TYPE_FLOAT")
       /\ stack' = [stack EXCEPT ![Len(stack)].pc = "for_test"]
       /\ ev' = [type |-> "for_step", var |-> Tokens[2], before |-> variables,
                 next |-> current_val, step |-> Top.loop.step]
    /\ UNCHANGED <<functions, call_stack, in_function, function_return_value,
                   error_buf, function_return_buf, status, stdin, vocab, declared>>

----------------------------------------------------------------------------
(* INPUT <var> <prompt> and CONCAT <var> <a> <b> *)

IsInput == Len(Tokens) >= 3 /\ Command = "INPUT"
IsConcat == Len(Tokens) >= 4 /\ Command = "CONCAT"

\* INPUT: the next line of standard input, trimmed, becomes the value
ExecInput ==
    /\ AtStart /\ IsInput
    /\ \E r \in fgets :
          /\ variables' = IF r.eof THEN variables
                          ELSE set_variable(variables, Tokens[2], text(r.line),
                                            "TYPE_STRING")
          /\ stdin' = IF r.eof THEN 0 ELSE stdin - 1
          /\ ev' = [type |-> IF r.eof THEN "failed" ELSE "done", cmd |-> "INPUT",
                    line |-> Top.line, fn |-> ActiveFn(stack),
                    parent |-> Parent(stack)]
    /\ stack' = Return(stack)
    /\ error_buf' = Settle(SelfBuf("line"), Len(stack) - 1)
    /\ function_return_buf' = Settle(function_return_buf, Len(stack) - 1)
    /\ UNCHANGED <<functions, call_stack, in_function, function_return_value,
                   status, vocab, declared>>

\* the text CONCAT builds in char result[MAX_LINE_LENGTH]
concat(v1, v2) ==
    (IF v1 = NULL THEN "" ELSE v1) \o (IF v2 = NULL THEN "" ELSE v2)

\* CONCAT: strcat past the end of result is undefined behaviour
ExecConcat ==
    /\ AtStart /\ IsConcat
    /\ LET result == concat(get_variable(variables, Tokens[3]),
                            get_variable(variables, Tokens[4]))
       IN
       IF Len(result) >= MAX_LINE_LENGTH
       THEN /\ status' \in {"crashed", "hung"}
            /\ ev' = [type |-> "overflow", cmd |-> "CONCAT"]
            /\ UNCHANGED <<variables, stack, error_buf, function_return_buf,
                           stdin, vocab>>
       ELSE /\ variables' = set_variable(variables, Tokens[2], result, "TYPE_STRING")
            /\ LineReturns("CONCAT", "done")
    /\ UNCHANGED <<functions, call_stack, in_function, function_return_value,
                   declared>>

----------------------------------------------------------------------------
(* TRY ... CATCH ... ENDTRY *)

ExecTry ==
    /\ AtStart /\ IsTry
    /\ stack' = [stack EXCEPT ![Len(stack)].pc = "try_collect",
                              ![Len(stack)].block = <<>>]
    /\ error_buf' = SelfBuf("line")
    /\ ev' = [type |-> "enter", cmd |-> "TRY"]
    /\ UNCHANGED <<variables, functions, call_stack, in_function,
                   function_return_value, function_return_buf, status, stdin,
                   vocab, declared>>

\* the TRY lines are collected up to CATCH, then setjmp(ctx->error_buf)
TryCollect ==
    /\ At("try_collect")
    /\ Collect("CATCH", "try_block")
    /\ error_buf' = IF stack'[Len(stack)].pc = "try_block"
                    THEN SelfBuf("try") ELSE error_buf
    /\ UNCHANGED <<variables, functions, call_stack, in_function,
                   function_return_value, function_return_buf, vocab,
                   declared>>

\* execute_block(try_lines); when it returns the CATCH lines are skipped
TryBlock ==
    /\ At("try_block")
    /\ execute_block("try_block", "try_skip")
    /\ UNCHANGED <<variables, functions, call_stack, in_function,
                   function_return_value, error_buf, function_return_buf,
                   status, stdin, vocab, declared>>

\* TrySkip with the bug of running the lines it reads
TrySkip_runs_catch ==
    /\ At("try_skip")
    /\ \E r \in fgets :
          /\ IF r.eof \/ is_sentinel(r.line, "ENDTRY")
             THEN /\ stack' = Return(stack)
                  /\ error_buf' = Settle(error_buf, Len(stack) - 1)
                  /\ function_return_buf' = Settle(function_return_buf, Len(stack) - 1)
                  /\ ev' = [type |-> "done", cmd |-> "TRY", line |-> r.line,
                            snap |-> Top.snap[1], faulted |-> Top.faulted,
                            skipped |-> Top.i, body |-> Len(Top.block),
                            depth |-> Len(stack)]
             ELSE /\ Dispatch(r.line, "try_skip", Top.i + 1)
                  /\ UNCHANGED <<error_buf, function_return_buf>>
          /\ stdin' = IF r.eof THEN 0 ELSE stdin - 1
    /\ UNCHANGED <<variables, functions, call_stack, in_function,
                   function_return_value, status, vocab, declared>>

\* "TRY block executed successfully; skipping CATCH": lines are read up to
\* ENDTRY and dropped
TrySkip ==
    /\ At("try_skip")
    /\ \E r \in fgets :
          /\ IF r.eof \/ is_sentinel(r.line, "ENDTRY")
             THEN /\ stack' = Return(stack)
                  /\ error_buf' = Settle(error_buf, Len(stack) - 1)
                  /\ function_return_buf' = Settle(function_return_buf, Len(stack) - 1)
                  /\ ev' = [type |-> "done", cmd |-> "TRY", line |-> r.line,
                            snap |-> Top.snap[1], faulted |-> Top.faulted,
                            skipped |-> Top.i, body |-> Len(Top.block),
                            depth |-> Len(stack)]
             ELSE /\ stack' = [stack EXCEPT ![Len(stack)].i = @ + 1]
                  /\ ev' = [type |-> "skip", eof |-> r.eof, line |-> r.line]
                  /\ UNCHANGED <<error_buf, function_return_buf>>
          /\ stdin' = IF r.eof THEN 0 ELSE stdin - 1
    /\ UNCHANGED <<variables, functions, call_stack, in_function,
                   function_return_value, status, vocab, declared>>

\* the else arm of the TRY branch: the CATCH lines are collected up to ENDTRY
CatchCollect ==
    /\ At("catch_collect")
    /\ Collect("ENDTRY", "catch_block")
    /\ UNCHANGED <<variables, functions, call_stack, in_function,
                   function_return_value, error_buf, function_return_buf,
                   vocab, declared>>

\* execute_block(catch_lines), then execute_line returns
CatchBlock ==
    /\ At("catch_block")
    /\ IF Top.i < Len(Top.block)
       THEN /\ Dispatch(Top.block[Top.i + 1], "catch_block", Top.i + 1)
            /\ UNCHANGED <<error_buf, function_return_buf>>
       ELSE /\ stack' = Return(stack)
            /\ error_buf' = Settle(error_buf, Len(stack) - 1)
            /\ function_return_buf' = Settle(function_return_buf, Len(stack) - 1)
            /\ ev' = [type |-> "done", cmd |-> "CATCH", line |-> Top.line]
    /\ UNCHANGED <<variables, functions, call_stack, in_function,
                   function_return_value, status, stdin, vocab, declared>>

----------------------------------------------------------------------------
(* Functions *)

\* the body lines define_function reads: those before the first line that is
\* exactly ENDFUNCTION
RECURSIVE function_body(_)
function_body(lines) ==
    IF lines = <<>> \/ lines[1] = <<"ENDFUNCTION">> THEN <<>>
    ELSE <<lines[1]>> \o function_body(Tail(lines))

\* define_function(ctx, tokens, token_count), reading lines from input
define_function(fs, tokens, lines) ==
    IF Len(tokens) < 2 THEN fs
    ELSE IF Len(fs) >= MAX_FUNCTIONS THEN fs
    ELSE Append(fs, [name |-> tokens[2],
                     params |-> SubSeq(tokens, 3, Len(tokens)),
                     code_lines |-> function_body(lines)])

\* the lookup of the CALL branch: the first function of that name, 0 for none
lookup(fs, name) ==
    First({k \in 1 .. Len(fs) : fs[k].name = name})

\* the parameter binding loop of execute_function
RECURSIVE bind_params(_, _, _)
bind_params(store, params, args) ==
    IF params = <<>> THEN store
    ELSE bind_params(set_variable(store, params[1], args[1], "TYPE_FLOAT"),
                     Tail(params), Tail(args))

\* int local_scope_start = ctx->variable_count
local_scope_start(store) == Len(store)

\* push with the bug of no depth test
push_unchecked(cs, name) == Append(cs, name)

\* if (call_stack_depth < MAX_CALL_STACK_DEPTH) push the function's name
push(cs, name) == IF Len(cs) < MAX_CALL_STACK_DEPTH THEN Append(cs, name) ELSE cs

\* if (call_stack_depth > 0) call_stack_depth--
pop(cs) == IF Len(cs) > 0 THEN SubSeq(cs, 1, Len(cs) - 1) ELSE cs

\* ArityMismatch with the bug of pushing the call frame before the test
ArityMismatch_pushes ==
    /\ stack' = Return(stack)
    /\ error_buf' = Settle(SelfBuf("line"), Len(stack) - 1)
    /\ function_return_buf' = Settle(function_return_buf, Len(stack) - 1)
    /\ ev' = [type |-> "arity", cmd |-> "CALL", line |-> Top.line,
              fn |-> ActiveFn(stack), parent |-> Parent(stack), ret |-> 0]
    /\ call_stack' = push(call_stack, Tokens[2])
    /\ UNCHANGED <<variables, in_function, status, stdin, vocab>>

\* execute_function with a wrong argument count: it prints the mismatch and
\* returns 0.0 at once; the CALL branch prints that result and returns
ArityMismatch ==
    /\ stack' = Return(stack)
    /\ error_buf' = Settle(SelfBuf("line"), Len(stack) - 1)
    /\ function_return_buf' = Settle(function_return_buf, Len(stack) - 1)
    /\ ev' = [type |-> "arity", cmd |-> "CALL", line |-> Top.line,
              fn |-> ActiveFn(stack), parent |-> Parent(stack), ret |-> 0]
    /\ UNCHANGED <<variables, call_stack, in_function, status, stdin, vocab>>

\* CALL <name> [args...], up to the body loop of execute_function
ExecCall ==
    /\ AtStart /\ IsCall
    /\ LET f == lookup(functions, Tokens[2])
           args == SubSeq(Tokens, 3, Len(Tokens))
       IN
       IF f = 0
       THEN /\ LineReturns("CALL", "undefined")
            /\ UNCHANGED <<variables, call_stack, in_function>>
       ELSE IF Len(args) # Len(functions[f].params)
       THEN ArityMismatch
       ELSE /\ Len(stack) < MaxNest
            /\ variables' = bind_params(variables, functions[f].params, args)
            /\ call_stack' = push(call_stack, functions[f].name)
            /\ in_function' = TRUE
            /\ function_return_buf' = [depth |-> Len(stack) + 1, at |-> "fn"]
            /\ error_buf' = SelfBuf("line")
            /\ stack' = Append([stack EXCEPT ![Len(stack)].pc = "call_ret"],
                               [NewCall(f, local_scope_start(variables), variables)
                                   EXCEPT !.n = Len(call_stack)])
            /\ ev' = [type |-> "call", f |-> f, args |-> args]
            /\ UNCHANGED <<status, stdin, vocab>>
    /\ UNCHANGED <<functions, function_return_value, declared>>

AtFn == status = "running" /\ stack # <<>> /\ Top.kind = "fn"

\* the body loop of execute_function: execute_line(ctx, f->code_lines[i])
FnStep ==
    /\ AtFn /\ Top.pc = "body"
    /\ Top.i < Len(functions[Top.f].code_lines)
    /\ Dispatch(functions[Top.f].code_lines[Top.i + 1], "body", Top.i + 1)
    /\ UNCHANGED <<variables, functions, call_stack, in_function,
                   function_return_value, error_buf, function_return_buf,
                   status, stdin, vocab, declared>>

\* the value execute_function returns
retVal == function_return_value

\* truncate with the bug of leaving the variable count as the body left it
truncate_forgotten(store, mark) == store

\* ctx->variable_count = local_scope_start
truncate(store, mark) == SubSeq(store, 1, mark)

\* FnExit with the bug of leaving the active-function flag set
FnExit_keeps_flag ==
    /\ AtFn
    /\ Top.pc = "body" => Top.i >= Len(functions[Top.f].code_lines)
    /\ variables' = truncate(variables, Top.mark)
    /\ call_stack' = pop(call_stack)
    /\ stack' = SubSeq(stack, 1, Len(stack) - 2)
    /\ error_buf' = Settle(error_buf, Len(stack) - 2)
    /\ function_return_buf' = Settle(function_return_buf, Len(stack) - 2)
    /\ ev' = [type |-> "fn_exit", ret |-> retVal, returned |-> (Top.pc = "returned"),
              f |-> Top.f, pre |-> Top.pre, grown |-> Len(variables) - Top.mark,
              depth |-> Top.n,
              active |-> Cardinality({k \in 1 .. Len(stack) : stack[k].kind = "fn"})]
    /\ UNCHANGED <<functions, function_return_value, status, stdin, vocab, declared,
                   in_function>>

\* the tail of execute_function, reached from the end of the body loop or from
\* longjmp(function_return_buf); the CALL branch prints the result and returns
FnExit ==
    /\ AtFn
    /\ Top.pc = "body" => Top.i >= Len(functions[Top.f].code_lines)
    /\ variables' = truncate(variables, Top.mark)
    /\ in_function' = FALSE
    /\ call_stack' = pop(call_stack)
    /\ stack' = SubSeq(stack, 1, Len(stack) - 2)
    /\ error_buf' = Settle(error_buf, Len(stack) - 2)
    /\ function_return_buf' = Settle(function_return_buf, Len(stack) - 2)
    /\ ev' = [type |-> "fn_exit", ret |-> retVal, returned |-> (Top.pc = "returned"),
              f |-> Top.f, pre |-> Top.pre, grown |-> Len(variables) - Top.mark,
              depth |-> Top.n,
              active |-> Cardinality({k \in 1 .. Len(stack) : stack[k].kind = "fn"})]
    /\ UNCHANGED <<functions, function_return_value, status, stdin, vocab, declared>>

\* longjmp(ctx->function_return_buf, 1): where a RETURN transfer lands
longjmp_return(buf, stk) ==
    IF buf.at = "fn"
    THEN {[stack |-> [SubSeq(stk, 1, buf.depth) EXCEPT ![buf.depth].pc = "returned"],
           status |-> "running"]}
    ELSE {[stack |-> stk, status |-> "crashed"], [stack |-> stk, status |-> "hung"]}

\* RETURN <expr>
ExecReturn ==
    /\ AtStart /\ IsReturn
    /\ IF ~in_function
       THEN /\ LineReturns("RETURN", "rejected")
            /\ UNCHANGED function_return_value
       ELSE LET r == evaluate_expression(join_tokens(Tokens, 1, Len(Tokens)), variables) IN
            IF r.fault
            THEN Raise(SelfBuf("line"), "RETURN")
            ELSE /\ r.ok /\ r.v \in NumRange
                 /\ function_return_value' = r.v
                 /\ \E o \in longjmp_return(function_return_buf, stack) :
                       /\ stack' = o.stack
                       /\ status' = o.status
                       /\ error_buf' = Settle(SelfBuf("line"), Len(o.stack))
                       /\ function_return_buf' = Settle(function_return_buf, Len(o.stack))
                 /\ ev' = [type |-> "return", val |-> r.v, line |-> Top.line,
                           fn |-> ActiveFn(stack), parent |-> Parent(stack)]
                 /\ UNCHANGED <<stdin, vocab>>
    /\ UNCHANGED <<variables, functions, call_stack, in_function, declared>>

----------------------------------------------------------------------------
(* PRINT <words...> and GET <name>.  What a command prints is kept in the  *)
(* history record of the step, one piece per printf.                       *)

IsPrint == Len(Tokens) >= 1 /\ Command = "PRINT"
IsGet == Len(Tokens) >= 2 /\ Command = "GET"

\* printf("%s ", ...)
shown(str) == str \o " "

\* print_token with the bug of marking an unknown bare word as undefined
print_token_marks_bare(tok, store) ==
    IF char(tok, 1) = "$"
    THEN (IF get_variable(store, SubSeq(tok, 2, Len(tok))) # NULL
          THEN shown(get_variable(store, SubSeq(tok, 2, Len(tok))))
          ELSE shown("[undefined]"))
    ELSE IF has_S_prefix(tok) THEN shown(payload(tok))
    ELSE IF get_variable(store, tok) # NULL THEN shown(get_variable(store, tok))
    ELSE shown("[undefined]")

\* the body of the PRINT loop: what is printed for tokens[i]
print_token(tok, store) ==
    IF char(tok, 1) = "$"
    THEN (IF get_variable(store, SubSeq(tok, 2, Len(tok))) # NULL
          THEN shown(get_variable(store, SubSeq(tok, 2, Len(tok))))
          ELSE shown("[undefined]"))
    ELSE IF has_S_prefix(tok) THEN shown(payload(tok))
    ELSE IF get_variable(store, tok) # NULL THEN shown(get_variable(store, tok))
    ELSE shown(tok)

\* the PRINT branch: one piece for each token after the command, then "\n"
print(tokens, store) ==
    [i \in 1 .. Len(tokens) - 1 |-> print_token(tokens[i + 1], store)] \o <<"\n">>

\* the GET branch
get(name, store) ==
    IF get_variable(store, name) # NULL
    THEN <<"Variable '" \o name \o "' = '" \o get_variable(store, name) \o "'\n">>
    ELSE <<"Variable '" \o name \o "' is not defined.\n">>

\* execute_line returns after a command that only prints
Prints(cmd, out) ==
    /\ stack' = Return(stack)
    /\ error_buf' = Settle(SelfBuf("line"), Len(stack) - 1)
    /\ function_return_buf' = Settle(function_return_buf, Len(stack) - 1)
    /\ ev' = [type |-> "done", cmd |-> cmd, line |-> Top.line,
              fn |-> ActiveFn(stack), parent |-> Parent(stack), out |-> out]
    /\ UNCHANGED <<variables, functions, call_stack, in_function,
                   function_return_value, status, stdin, vocab, declared>>

ExecPrint ==
    /\ AtStart /\ IsPrint
    /\ Prints("PRINT", print(Tokens, variables))

ExecGet ==
    /\ AtStart /\ IsGet
    /\ Prints("GET", get(Tokens[2], variables))

\* commands of the dispatcher that this model does not interpret
Uninterpreted == {"DEBUG", "IMPORT", "STACK", "TRACE", "HELP",
                  "CHEATSHEET", "CUSTOM", "GUIDED", "AUDIO", "THEME", "SAY",
                  "EXIT"}

\* a line without tokens returns at once; a line that no branch of the chain
\* accepts reaches the final else: print_error "Unknown command", no longjmp
ExecOther ==
    /\ AtStart
    /\ Len(Tokens) > 0 =>
          /\ ~(IsSet \/ IsRepeat \/ IsIf \/ IsWhile \/ IsTry \/ IsCall \/ IsReturn
               \/ IsFor \/ IsInput \/ IsConcat \/ IsPrint \/ IsGet)
          /\ Command \notin Uninterpreted
    /\ LineReturns(IF Len(Tokens) = 0 THEN "" ELSE Command,
                   IF Len(Tokens) = 0 THEN "empty" ELSE "unknown")
    /\ declared' = IF Len(Tokens) >= 2 /\ Command = "FUNCTION"
                   THEN declared \cup {Tokens[2]} ELSE declared
    /\ UNCHANGED <<variables, functions, call_stack, in_function,
                   function_return_value>>

----------------------------------------------------------------------------
(* Inputs *)

L_try == <<"TRY">>
L_catch == <<"CATCH">>
L_endtry == <<"ENDTRY">>
L_set_x_1 == <<"SET", "x", "=", "1">>
L_set_x_div0 == <<"SET", "x", "=", "1", "/", "0">>
L_if_x == <<"IF", "x", "THEN", "SET", "y", "=", "1", "/", "0", "ELSE",
            "SET", "y", "=", "2", "ENDIF">>
L_function_f == <<"FUNCTION", "f", "a">>
L_call_f_1 == <<"CALL", "f", "1">>

\* the lines standard input may supply in Spec
Vocab == {L_try, L_catch, L_endtry, L_set_x_1, L_set_x_div0, L_if_x,
          L_function_f, L_call_f_1}

\* ctx lives on main's stack and init_context leaves function_return_value
\* unset: it starts with whatever the stack held
UninitValues == {0, 7}

init_context ==
    /\ variables = <<>>
    /\ functions = <<>>
    /\ call_stack = <<>>
    /\ in_function = FALSE
    /\ function_return_value \in UninitValues
    /\ function_return_buf = [depth |-> 0, at |-> "unset"]

\* main: init_context, setjmp(ctx.error_buf), repl
Init ==
    /\ init_context
    /\ error_buf = [depth |-> 0, at |-> "main"]
    /\ stack = <<>>
    /\ stdin = MaxInput
    /\ status = "running"
    /\ vocab = Vocab
    /\ declared = {}
    /\ ev = [type |-> "init"]

Next ==
    \/ ReplRead
    \/ ExecSet
    \/ ExecIf
    \/ IfDone
    \/ ExecTry
    \/ TryCollect
    \/ TryBlock
    \/ TrySkip
    \/ ExecCall
    \/ ExecOther

Spec == Init /\ [][Next]_vars

----------------------------------------------------------------------------
(* The function specification.  No branch of execute_line calls            *)
(* define_function, so a run of Spec never holds a function.  SpecF starts *)
(* with the registry define_function builds from a definition text, and    *)
(* then runs the interpreter as Spec does.                                 *)

B_set_t == <<"SET", "t", "=", "x", "+", "1">>
B_return_t == <<"RETURN", "t">>
B_if_return == <<"IF", "6", "/", "x", "THEN", "RETURN", "5", "ENDIF">>
B_repeat_return == <<"REPEAT", "2", "IF", "x", "THEN", "RETURN", "x", "+", "1", "ENDIF">>
B_set_div0 == <<"SET", "t", "=", "1", "/", "0">>
B_return_div0 == <<"RETURN", "1", "/", "0">>
B_while == <<"WHILE", "6", "/", "x", "BEGIN">>

BodyLines == {B_set_t, B_return_t, B_if_return, B_repeat_return, B_set_div0,
              B_return_div0, B_while}

\* bodies of at most MaxBody lines
MaxBody == 2
RECURSIVE Bodies(_)
Bodies(n) ==
    IF n = 0 THEN {<<>>}
    ELSE Bodies(n - 1) \cup {Append(b, l) : b \in {c \in Bodies(n - 1) : Len(c) = n - 1},
                                            l \in BodyLines}

\* g calls f and returns afterwards
G_text == << <<"CALL", "f", "2">>, <<"IF", "1", "THEN", "RETURN", "4", "ENDIF">>,
             <<"SET", "y", "=", "3">>, <<"ENDFUNCTION">> >>

Registries ==
    {define_function(
        define_function(<<>>, <<"FUNCTION", "f", "x">>, Append(b, <<"ENDFUNCTION">>)),
        <<"FUNCTION", "g">>, G_text) : b \in Bodies(MaxBody)}

L_call_g == <<"CALL", "g">>
L_call_f_0 == <<"CALL", "f", "0">>
L_set_x_hi == <<"SET", "x", "=", "\"hi\"">>
L_dec_x == <<"SET", "x", "=", "x", "-", "1">>
L_return_3 == <<"RETURN", "3">>
L_endwhile == <<"endwhile">>

\* the lines standard input may supply in SpecF
VocabF == {L_call_f_1, L_call_f_0, L_call_g, L_set_x_hi, L_dec_x, L_return_3,
           L_endwhile}

InitF ==
    /\ variables = <<>>
    /\ functions \in Registries
    /\ call_stack = <<>>
    /\ in_function = FALSE
    /\ function_return_value \in UninitValues
    /\ function_return_buf = [depth |-> 0, at |-> "unset"]
    /\ error_buf = [depth |-> 0, at |-> "main"]
    /\ stack = <<>>
    /\ stdin = MaxInputF
    /\ status = "running"
    /\ vocab = VocabF
    /\ declared = {}
    /\ ev = [type |-> "init"]

NextF ==
    \/ ReplRead
    \/ ExecSet
    \/ ExecRepeat
    \/ RepeatStep
    \/ ExecIf
    \/ IfDone
    \/ ExecWhile
    \/ WhileCollect
    \/ WhileTest
    \/ WhileBody
    \/ ExecCall
    \/ FnStep
    \/ FnExit
    \/ ExecReturn
    \/ ExecOther

SpecF == InitF /\ [][NextF]_vars

----------------------------------------------------------------------------
(* The store specification: every command that writes the variable store,  *)
(* with a registry of one function whose parameter and body variable meet  *)
(* names the input also assigns.                                           *)

\* lines standard input supplies in the store specification
MaxInputS == 4

L_input_x == <<"INPUT", "x", "?">>
L_concat_t == <<"CONCAT", "t", "x", "x">>
L_for_x == <<"FOR", "x", "=", "1", "TO", "2", "BEGIN">>
L_endfor == <<"ENDFOR">>
L_call_f == <<"CALL", "f">>
L_call_f_1_2 == <<"CALL", "f", "1", "2">>

VocabS == {L_set_x_hi, L_input_x, L_concat_t, L_for_x, L_endfor, L_call_f_1,
           L_call_f, L_call_f_1_2}

RegistryS ==
    define_function(<<>>, <<"FUNCTION", "f", "x">>, <<B_set_t, <<"ENDFUNCTION">>>>)

InitS ==
    /\ variables = <<>>
    /\ functions = RegistryS
    /\ call_stack = <<>>
    /\ in_function = FALSE
    /\ function_return_value \in UninitValues
    /\ function_return_buf = [depth |-> 0, at |-> "unset"]
    /\ error_buf = [depth |-> 0, at |-> "main"]
    /\ stack = <<>>
    /\ stdin = MaxInputS
    /\ status = "running"
    /\ vocab = VocabS
    /\ declared = {}
    /\ ev = [type |-> "init"]

NextS ==
    \/ ReplRead
    \/ ExecSet
    \/ ExecInput
    \/ ExecConcat
    \/ ExecFor
    \/ ForCollect
    \/ ForTest
    \/ ForBody
    \/ ForStep
    \/ ExecCall
    \/ FnStep
    \/ FnExit
    \/ ExecOther

SpecS == InitS /\ [][NextS]_vars

----------------------------------------------------------------------------
(* The capacity specification: a registry that define_function has filled  *)
(* up to MAX_FUNCTIONS, a function that calls itself more often than       *)
(* MAX_CALL_STACK_DEPTH, and a store that is either one SET short of       *)
(* MAX_VARIABLES or holds only the counter of the recursion.               *)

\* lines standard input supplies in the capacity specification
MaxInputCap == 3
\* the variables the earlier SET lines of the long session have created
FillCap == 99
\* the value of n, the number of nested invocations of r
Deep == 102

B_dec_n == <<"SET", "n", "=", "n", "-", "1">>
B_if_call_r == <<"IF", "n", ">", "0", "THEN", "CALL", "r", "ENDIF">>
L_set_a_1 == <<"SET", "a", "=", "1">>
L_set_b_1 == <<"SET", "b", "=", "1">>
L_call_r == <<"CALL", "r">>

VocabCap == {L_set_a_1, L_set_b_1, L_call_r}

\* the store SET v1 = 0, ..., SET v<FillCap> = 0 have left
StoreCap ==
    [k \in 1 .. FillCap |->
        [name |-> "v" \o ToString(k), type |-> "TYPE_FLOAT", value |-> format_g(0)]]

\* the store SET n = <Deep> has left
StoreDeep == set_variable(<<>>, "n", format_g(Deep), "TYPE_FLOAT")

\* the registry FUNCTION r and FUNCTION g1 ... (each with an empty body) have
\* filled, and one more definition that finds it full
RegistryCap ==
    define_function(
        [k \in 1 .. MAX_FUNCTIONS |->
            IF k = 1 THEN [name |-> "r", params |-> <<>>,
                           code_lines |-> function_body(<<B_dec_n, B_if_call_r,
                                                          <<"ENDFUNCTION">>>>)]
            ELSE [name |-> "g" \o ToString(k - 1), params |-> <<>>,
                  code_lines |-> function_body(<<<<"ENDFUNCTION">>>>)]],
        <<"FUNCTION", "g">>, <<<<"ENDFUNCTION">>>>)

InitCap ==
    /\ variables \in {StoreCap, StoreDeep}
    /\ functions = RegistryCap
    /\ call_stack = <<>>
    /\ in_function = FALSE
    /\ function_return_value \in UninitValues
    /\ function_return_buf = [depth |-> 0, at |-> "unset"]
    /\ error_buf = [depth |-> 0, at |-> "main"]
    /\ stack = <<>>
    /\ stdin = MaxInputCap
    /\ status = "running"
    /\ vocab = VocabCap
    /\ declared = {}
    /\ ev = [type |-> "init"]

NextCap ==
    \/ ReplRead
    \/ ExecSet
    \/ ExecIf
    \/ IfDone
    \/ ExecCall
    \/ FnStep
    \/ FnExit

SpecCap == InitCap /\ [][NextCap]_vars

----------------------------------------------------------------------------
(* The FOR specification: ascending and descending loops, a loop whose      *)
(* bounds have seven digits, and block lines that use or assign the loop   *)
(* variable.                                                               *)

\* lines standard input supplies in the FOR specification
MaxInputFor == 4

L_for_i_1_3 == <<"FOR", "i", "=", "1", "TO", "3", "BEGIN">>
L_for_i_1_3_down == <<"FOR", "i", "=", "1", "TO", "3", "STEP", "-1", "BEGIN">>
L_for_i_3_1_down == <<"FOR", "i", "=", "3", "TO", "1", "STEP", "-1", "BEGIN">>
L_for_i_big == <<"FOR", "i", "=", "1234567", "TO", "1234569", "BEGIN">>
L_set_y_y_i == <<"SET", "y", "=", "y", "+", "i">>
L_set_i_10 == <<"SET", "i", "=", "10">>

VocabFor == {L_for_i_1_3, L_for_i_1_3_down, L_for_i_3_1_down, L_for_i_big,
             L_set_y_y_i, L_set_i_10, L_endfor}

InitFor ==
    /\ init_context
    /\ error_buf = [depth |-> 0, at |-> "main"]
    /\ stack = <<>>
    /\ stdin = MaxInputFor
    /\ status = "running"
    /\ vocab = VocabFor
    /\ declared = {}
    /\ ev = [type |-> "init"]

NextFor ==
    \/ ReplRead
    \/ ExecSet
    \/ ExecFor
    \/ ForCollect
    \/ ForTest
    \/ ForBody
    \/ ForStep
    \/ ExecOther

SpecFor == InitFor /\ [][NextFor]_vars

----------------------------------------------------------------------------
(* The control specification: WHILE, REPEAT and IF lines over a counter.   *)

\* lines standard input supplies in the control specification
MaxInputCtl == 3

L_while_x_lt_2 == <<"WHILE", "x", "<", "2", "BEGIN">>
L_while_x == <<"WHILE", "x", "BEGIN">>
L_inc_x == <<"SET", "x", "=", "x", "+", "1">>
L_repeat_3_inc == <<"REPEAT", "3", "SET", "x", "=", "x", "+", "1">>
L_repeat_0_inc == <<"REPEAT", "0", "SET", "x", "=", "x", "+", "1">>
L_if_x_else == <<"IF", "x", "THEN", "SET", "y", "=", "1", "ELSE",
                 "SET", "y", "=", "2", "ENDIF">>
L_if_x_then == <<"IF", "x", "THEN", "SET", "endif", "=", "1", "ENDIF">>
L_if_endif == <<"IF", "endif", "THEN", "SET", "y", "=", "3", "ENDIF">>
L_if_no_then == <<"IF", "x", "SET", "y", "=", "4", "ENDIF">>

VocabCtl == {L_while_x_lt_2, L_while_x, L_inc_x, L_endwhile, L_repeat_3_inc,
             L_repeat_0_inc, L_if_x_else, L_if_x_then, L_if_endif, L_if_no_then}

InitCtl ==
    /\ init_context
    /\ error_buf = [depth |-> 0, at |-> "main"]
    /\ stack = <<>>
    /\ stdin = MaxInputCtl
    /\ status = "running"
    /\ vocab = VocabCtl
    /\ declared = {}
    /\ ev = [type |-> "init"]

NextCtl ==
    \/ ReplRead
    \/ ExecSet
    \/ ExecRepeat
    \/ RepeatStep
    \/ ExecIf
    \/ IfDone
    \/ ExecWhile
    \/ WhileCollect
    \/ WhileTest
    \/ WhileBody
    \/ ExecOther

SpecCtl == InitCtl /\ [][NextCtl]_vars

----------------------------------------------------------------------------
(* The expression specification: one SET line whose expression is built    *)
(* from literals, the ten binary operators and parentheses; the input      *)
(* supplies that line and nothing else.                                    *)

\* the largest literal of the expressions
MaxLit == 2
\* lines standard input supplies in the expression specification
MaxInputE == 1

Lits == {ToString(n) : n \in 0 .. MaxLit}
BinOps == MulOps \cup AddOps \cup CmpOps

\* a o b p c: as it stands, with either pair in parentheses, with one
\* parenthesis of a pair missing, and written without blanks
Shapes(a, o, b, p, c) ==
    { <<a, o, b, p, c>>,
      <<"(", a, o, b, ")", p, c>>,
      <<a, o, "(", b, p, c, ")">>,
      <<"(", a, o, b, p, c>>,
      <<a, o, b, ")", p, c>>,
      <<a \o o \o b \o p \o c>> }

Exprs ==
    UNION {Shapes(a, o, b, p, c) : a \in Lits, o \in BinOps, b \in Lits,
                                   p \in BinOps, c \in Lits}

L_set_x(e) == <<"SET", "x", "=">> \o e

InitE ==
    /\ init_context
    /\ error_buf = [depth |-> 0, at |-> "main"]
    /\ stack = <<>>
    /\ stdin = MaxInputE
    /\ status = "running"
    /\ vocab \in {{L_set_x(e)} : e \in Exprs}
    /\ declared = {}
    /\ ev = [type |-> "init"]

NextE ==
    \/ ReplRead
    \/ ExecSet

SpecE == InitE /\ [][NextE]_vars

----------------------------------------------------------------------------
(* The output specification: PRINT, GET and SET lines that name variables  *)
(* the store may or may not hold.                                          *)

\* lines standard input supplies in the output specification
MaxInputP == 3

L_set_x_3 == <<"SET", "x", "=", "3">>
L_print_mix == <<"PRINT", "$q", "x", "q", "\"hi\"", "$x", "y">>
L_get_q == <<"GET", "q">>
L_get_x == <<"GET", "x">>
L_get == <<"GET">>
L_set_y_q == <<"SET", "y", "=", "q", "+", "1", "+", "x">>
L_set_x_q == <<"SET", "x", "=", "2", "*", "q">>

VocabP == {L_set_x_3, L_set_x_hi, L_print_mix, L_get_q, L_get_x, L_get,
           L_set_y_q, L_set_x_q}

InitP ==
    /\ init_context
    /\ error_buf = [depth |-> 0, at |-> "main"]
    /\ stack = <<>>
    /\ stdin = MaxInputP
    /\ status = "running"
    /\ vocab = VocabP
    /\ declared = {}
    /\ ev = [type |-> "init"]

NextP ==
    \/ ReplRead
    \/ ExecSet
    \/ ExecPrint
    \/ ExecGet
    \/ ExecOther

SpecP == InitP /\ [][NextP]_vars

----------------------------------------------------------------------------
(* The block specification: the constructs that collect a block of lines,  *)
(* with their sentinels written in several letter cases, and a call of     *)
(* define_function.                                                        *)

\* lines standard input supplies in the block specification
MaxInputB == 3

L_while_0 == <<"WHILE", "0", "BEGIN">>
L_for_1_0 == <<"FOR", "i", "=", "1", "TO", "0", "BEGIN">>
L_EndFor == <<"EndFor">>
L_catch_lower == <<"catch">>
L_EndTry == <<"EndTry">>
L_endfunction_lower == <<"endfunction">>
L_ENDFUNCTION == <<"ENDFUNCTION">>

VocabB == {L_while_0, L_endwhile, L_for_1_0, L_EndFor, L_try, L_catch_lower,
           L_EndTry, L_endfunction_lower, L_ENDFUNCTION, L_set_x_1}

\* the lines the reading loop of define_function takes from the input: up to
\* and including the first line that is exactly ENDFUNCTION
RECURSIVE lines_read(_)
lines_read(lines) ==
    IF lines = <<>> THEN <<>>
    ELSE IF lines[1] = <<"ENDFUNCTION">> THEN <<lines[1]>>
    ELSE <<lines[1]>> \o lines_read(Tail(lines))

\* what the input can supply next: at most n lines
Texts(n) == UNION {[1 .. k -> vocab] : k \in 0 .. n}

\* a call of define_function for FUNCTION f, with the lines the input then
\* supplies; the loop ends at ENDFUNCTION or at the end of the input
DefineFunction ==
    /\ status = "running"
    /\ stack = <<>>
    /\ stdin > 0
    /\ \E lines \in Texts(IF stdin < MaxBody + 1 THEN stdin ELSE MaxBody + 1) :
          /\ lines_read(lines) = lines
          /\ Len(lines) = stdin \/ Len(function_body(lines)) < Len(lines)
          /\ functions' = define_function(functions, <<"FUNCTION", "f">>, lines)
          /\ stdin' = stdin - Len(lines)
          /\ ev' = [type |-> "defined", lines |-> lines]
    /\ UNCHANGED <<variables, call_stack, in_function, function_return_value,
                   error_buf, function_return_buf, stack, status, vocab, declared>>

InitB ==
    /\ init_context
    /\ error_buf = [depth |-> 0, at |-> "main"]
    /\ stack = <<>>
    /\ stdin = MaxInputB
    /\ status = "running"
    /\ vocab = VocabB
    /\ declared = {}
    /\ ev = [type |-> "init"]

NextB ==
    \/ ReplRead
    \/ DefineFunction
    \/ ExecSet
    \/ ExecWhile
    \/ WhileCollect
    \/ WhileTest
    \/ ExecFor
    \/ ForCollect
    \/ ForTest
    \/ ExecTry
    \/ TryCollect
    \/ TryBlock
    \/ TrySkip
    \/ ExecOther

SpecB == InitB /\ [][NextB]_vars

----------------------------------------------------------------------------
(* The tutorial specification: the conditions of IF and WHILE written with *)
(* $name as show_guided_tutorial writes them, and with the bare name.      *)

\* lines standard input supplies in the tutorial specification
MaxInputT == 4

L_if_dollar == <<"IF", "$x", ">", "2", "THEN", "PRINT", "\"High\"", "ELSE",
                 "PRINT", "\"Low\"", "ENDIF">>
L_if_bare == <<"IF", "x", ">", "2", "THEN", "PRINT", "\"High\"", "ELSE",
               "PRINT", "\"Low\"", "ENDIF">>
L_while_dollar == <<"WHILE", "$x", "<", "10", "BEGIN">>
L_while_bare == <<"WHILE", "x", "<", "10", "BEGIN">>
L_set_x_x_4 == <<"SET", "x", "=", "x", "+", "4">>

VocabT == {L_set_x_3, L_if_dollar, L_if_bare, L_while_dollar, L_while_bare,
           L_set_x_x_4, L_endwhile}

InitT ==
    /\ init_context
    /\ error_buf = [depth |-> 0, at |-> "main"]
    /\ stack = <<>>
    /\ stdin = MaxInputT
    /\ status = "running"
    /\ vocab = VocabT
    /\ declared = {}
    /\ ev = [type |-> "init"]

NextT ==
    \/ ReplRead
    \/ ExecSet
    \/ ExecPrint
    \/ ExecIf
    \/ IfDone
    \/ ExecWhile
    \/ WhileCollect
    \/ WhileTest
    \/ WhileBody
    \/ ExecOther

SpecT == InitT /\ [][NextT]_vars

----------------------------------------------------------------------------
(* The nesting specification: commands dispatched directly, as the THEN    *)
(* command of IF 1 and as the sub-command of REPEAT 1.                     *)

\* lines standard input supplies in the nesting specification
MaxInputN == 2

L_set_s_a_b == <<"SET", "s", "=", "\"a b\"">>
L_set_s_hi == <<"SET", "s", "=", "\"hi\"">>
L_print_a_b_s == <<"PRINT", "\"a b\"", "s">>

\* the commands that are nested
Cmds == {L_set_s_a_b, L_set_s_hi, L_set_x_3, L_print_a_b_s}

if_1_then(cmd) == <<"IF", "1", "THEN">> \o cmd \o <<"ENDIF">>
repeat_1(cmd) == <<"REPEAT", "1">> \o cmd

VocabN == Cmds \cup {if_1_then(c) : c \in Cmds} \cup {repeat_1(c) : c \in Cmds}

InitN ==
    /\ init_context
    /\ error_buf = [depth |-> 0, at |-> "main"]
    /\ stack = <<>>
    /\ stdin = MaxInputN
    /\ status = "running"
    /\ vocab = VocabN
    /\ declared = {}
    /\ ev = [type |-> "init"]

NextN ==
    \/ ReplRead
    \/ ExecSet
    \/ ExecPrint
    \/ ExecIf
    \/ IfDone
    \/ ExecRepeat
    \/ RepeatStep

SpecN == InitN /\ [][NextN]_vars

----------------------------------------------------------------------------
(* The long-block specification: a WHILE, FOR or TRY line has just been    *)
(* read, and the input goes on with more lines than a block array holds,   *)
(* none of them the sentinel.                                              *)

\* lines standard input supplies after the line that opens the block
MaxInputLong == 102

Openers == {L_while_0, L_for_1_0, L_try}

InitLong ==
    /\ init_context
    /\ error_buf = [depth |-> 0, at |-> "main"]
    /\ stack \in {<<NewLine(o)>> : o \in Openers}
    /\ stdin = MaxInputLong
    /\ status = "running"
    /\ vocab = {L_set_x_1}
    /\ declared = {}
    /\ ev = [type |-> "init"]

NextLong ==
    \/ ReplRead
    \/ ExecSet
    \/ ExecWhile
    \/ WhileCollect
    \/ WhileTest
    \/ ExecFor
    \/ ForCollect
    \/ ForTest
    \/ ExecTry
    \/ TryCollect
    \/ TryBlock
    \/ TrySkip

SpecLong == InitLong /\ [][NextLong]_vars

----------------------------------------------------------------------------
(* The termination specification: a FOR line over integer start, end and   *)
(* step values, the step 0 among them, has just been read; the lines that  *)
(* follow make a body that leaves the loop variable alone.  The            *)
(* interpreter is one sequential process: a loop that has a next step      *)
(* takes it.                                                               *)

\* lines standard input supplies after the FOR line
MaxInputLive == 3

L_for_i_1_9 == <<"FOR", "i", "=", "1", "TO", "9", "BEGIN">>
L_for_i_1_3_step_0 == <<"FOR", "i", "=", "1", "TO", "3", "STEP", "0", "BEGIN">>
L_for_i_3_1_step_0 == <<"FOR", "i", "=", "3", "TO", "1", "STEP", "0", "BEGIN">>
L_print_i == <<"PRINT", "i">>

ForLines == {L_for_i_1_3, L_for_i_3_1_down, L_for_i_1_9, L_for_i_1_3_step_0,
             L_for_i_3_1_step_0}

InitLive ==
    /\ init_context
    /\ error_buf = [depth |-> 0, at |-> "main"]
    /\ stack \in {<<NewLine(f)>> : f \in ForLines}
    /\ stdin = MaxInputLive
    /\ status = "running"
    /\ vocab = {L_print_i, L_endfor}
    /\ declared = {}
    /\ ev = [type |-> "init"]

\* the top of the loop in the iterations after the first MaxIters, of which
\* no history is kept
ForTestOn ==
    /\ At("for_test")
    /\ Len(Top.iters) = MaxIters
    /\ get_variable(variables, Tokens[2]) # NULL
    /\ condition_met(Top.loop, atof(get_variable(variables, Tokens[2])))
    /\ stack' = [stack EXCEPT ![Len(stack)].pc = "for_body_on",
                              ![Len(stack)].i = 0,
                              ![Len(stack)].loop.cur =
                                  atof(get_variable(variables, Tokens[2]))]
    /\ ev' = [type |-> "iterate", cmd |-> "FOR"]
    /\ UNCHANGED <<variables, functions, call_stack, in_function,
                   function_return_value, error_buf, function_return_buf,
                   status, stdin, vocab, declared>>

\* execute_block in those iterations: the lines of the block, one
\* execute_line each, then the step
ForBodyOn ==
    /\ At("for_body_on")
    /\ IF Top.i < Len(Top.block)
       THEN /\ Len(stack) < MaxNest
            /\ stack' = Append([stack EXCEPT ![Len(stack)].i = @ + 1],
                               NewLine(Top.block[Top.i + 1]))
            /\ ev' = [type |-> "dispatch", line |-> Top.block[Top.i + 1],
                      by |-> "for_body_on"]
       ELSE /\ stack' = [stack EXCEPT ![Len(stack)].pc = "for_step",
                                      ![Len(stack)].i = 0,
                                      ![Len(stack)].snap = <<Snapshot>>]
            /\ ev' = [type |-> "block_done", by |-> "for_body_on"]
    /\ UNCHANGED <<variables, functions, call_stack, in_function,
                   function_return_value, error_buf, function_return_buf,
                   status, stdin, vocab, declared>>

\* the steps of a loop and of its body lines
LoopStep ==
    \/ ForTest
    \/ ForBody
    \/ ForStep
    \/ ForTestOn
    \/ ForBodyOn
    \/ ExecPrint

NextLive ==
    \/ ReplRead
    \/ ExecFor
    \/ ForCollect
    \/ LoopStep
    \/ ExecOther

SpecLive == InitLive /\ [][NextLive]_vars /\ WF_vars(LoopStep)

----------------------------------------------------------------------------
(* Properties *)

Frames == 1 .. Len(stack)
CatchPcs == {"catch_collect", "catch_block"}
Params(f) == {functions[f].params[k] : k \in 1 .. Len(functions[f].params)}

\* C1: once a line of a TRY body has raised a fault, the TRY activation is
\* in its CATCH arm: no further TRY-body line runs and the CATCH lines are
\* collected and dispatched.
C1_FaultRunsCatch ==
    \A k \in Frames : stack[k].faulted => stack[k].pc \in CatchPcs

\* C2: after a TRY body without a fault the lines up to ENDTRY are read and
\* never dispatched: while they are read the TRY activation stays innermost
\* and the store, registry and call stack stay as the body left them, and
\* when ENDTRY is read the activation returns to its caller with them so.
C2_SkippedCatchInert ==
    /\ \A k \in Frames :
          stack[k].pc = "try_skip" /\ ~stack[k].faulted =>
              k = Len(stack) /\ Snapshot = stack[k].snap[1]
    /\ ev.type = "done" /\ ev.cmd = "TRY" /\ ~ev.faulted =>
          /\ Snapshot = ev.snap
          /\ Len(stack) = ev.depth - 1
          /\ status = "running"

\* C2 witness: a TRY with a body that changed the store and raised no
\* fault has read and dropped CATCH lines and then ENDTRY
C2_Witness ==
    /\ ev.type = "done" /\ ev.cmd = "TRY" /\ ~ev.faulted
    /\ ev.line = L_endtry /\ ev.skipped > 0 /\ ev.body > 0
    /\ variables # <<>>

\* C3: when an invocation returns, every variable that was in the store
\* before the call under the name of one of the parameters holds the value
\* and type it had then.
C3_ShadowedRestored ==
    ev.type = "fn_exit" =>
        \A i \in 1 .. Len(ev.pre) :
            ev.pre[i].name \in Params(ev.f) =>
                i <= Len(variables) /\ variables[i] = ev.pre[i]

\* C4: when an invocation returns, by fall-through or by RETURN, the store
\* is as long as it was before the parameters were bound and holds the same
\* names at the same places: nothing created during the call is visible.
C4_StoreBackToWatermark ==
    ev.type = "fn_exit" =>
        /\ Len(variables) = Len(ev.pre)
        /\ \A i \in 1 .. Len(ev.pre) : variables[i].name = ev.pre[i].name

\* C4 witness: an invocation that created its parameter and a body
\* variable has returned through RETURN
C4_Witness == ev.type = "fn_exit" /\ ev.returned /\ ev.grown >= 2

\* C5: an invocation whose body ends without a RETURN transfer yields 0.
C5_FallThroughZero ==
    ev.type = "fn_exit" /\ ~ev.returned => ev.ret = 0

\* C6: a RETURN dispatched by IF or REPEAT while an invocation is active is
\* never rejected, and when its expression has a value the innermost
\* invocation ends at once with that value as its result.
NestedPcs == {"if_done", "repeat"}
C6_NestedReturnEnds ==
    /\ ev.type = "rejected" => ~(ev.fn # 0 /\ ev.parent \in NestedPcs)
    /\ ev.type = "return" /\ ev.parent \in NestedPcs =>
          /\ status = "running"
          /\ Len(stack) = ev.fn /\ Top.pc = "returned"
          /\ function_return_value = ev.val

\* C7: the active-function flag is true exactly when some invocation is
\* active, and RETURN is rejected only when none is.
C7_FlagIffActive ==
    /\ in_function = (ActiveFn(stack) # 0)
    /\ ev.type = "rejected" => ev.fn = 0

\* C8: a fault raised by the expression of a SET, IF or RETURN line leaves
\* the store, the registry and the call stack as they were, assigns and
\* dispatches nothing, and returns to the caller of that line, which goes on.
ExprCmds == {"SET", "IF", "RETURN"}
C8_FaultSkipsOnlyLine ==
    ev.type = "fault" /\ ev.cmd \in ExprCmds =>
        /\ Snapshot = ev.pre
        /\ function_return_value = ev.value
        /\ status = "running"
        /\ stack = mark_try_faulted(Return(ev.stack), ev.stack)

\* C8 witness: the expression of a RETURN line inside an invocation has
\* raised a fault
C8_Witness == ev.type = "fault" /\ ev.cmd = "RETURN" /\ ev.fn # 0

\* C9: a fault raised while an invocation is active is absorbed by a fault
\* boundary: the run goes on, the invocation is still in its body and its
\* result is untouched; and a RETURN transfer lands in the invocation, never
\* at a fault boundary.
C9_FaultsAndReturnsApart ==
    /\ ev.type = "fault" /\ ev.fn # 0 =>
          /\ status = "running"
          /\ Len(stack) >= ev.fn /\ stack[ev.fn].pc = "body"
          /\ function_return_value = ev.value
    /\ ev.type = "return" =>
          status = "running" /\ Top.kind = "fn" /\ Top.pc = "returned"

\* C10: a dispatched FUNCTION line is accepted, and a later CALL of the
\* name it gave finds the function.
C10_FunctionRegisters ==
    /\ ev.type = "unknown" => ev.cmd # "FUNCTION"
    /\ ev.type = "undefined" => tokenize(ev.line)[2] \notin declared

\* C11: no two entries of the variable store have the same name.
C11_NamesUnique ==
    \A i \in 1 .. Len(variables) : \A j \in 1 .. Len(variables) :
        variables[i].name = variables[j].name => i = j

\* C11 witness: an invocation whose parameter met a variable of its own name
\* has returned into a store of several entries that SET, INPUT, CONCAT or
\* FOR had filled
C11_Witness ==
    /\ ev.type = "fn_exit"
    /\ \E i \in 1 .. Len(ev.pre) : ev.pre[i].name \in Params(ev.f)
    /\ Len(variables) >= 2

\* C12: the variable store, the call stack and the function registry never
\* hold more entries than their capacities, recursion deeper than the call
\* stack included.
C12_CountsWithinBounds ==
    /\ Len(variables) \in 0 .. MAX_VARIABLES
    /\ Len(call_stack) \in 0 .. MAX_CALL_STACK_DEPTH
    /\ Len(functions) \in 0 .. MAX_FUNCTIONS

\* C12 witness: more invocations are active than the call stack can name,
\* with the call stack and the registry full
C12_Witness ==
    /\ Cardinality({k \in 1 .. Len(stack) : stack[k].kind = "fn"}) > MAX_CALL_STACK_DEPTH
    /\ Len(call_stack) = MAX_CALL_STACK_DEPTH
    /\ Len(functions) = MAX_FUNCTIONS

\* the names, values and types set_variable is tried with: names the store
\* holds in either initial store, names it may come to hold, and one it never does
C13_Names == {"a", "b", "n", "v1", "v" \o ToString(FillCap), "zz"}
C13_Values == {"1", "hi", ""}
C13_Types == {"TYPE_FLOAT", "TYPE_STRING"}

\* what set_variable is to do to the store old: replace the entry of that name
\* where it stands, else append one entry, else (store full) nothing
C13_Outcome(old, new, nm, val, ty) ==
    IF \E i \in 1 .. Len(old) : old[i].name = nm
    THEN /\ Len(new) = Len(old)
         /\ \A i \in 1 .. Len(old) :
                IF old[i].name = nm
                THEN new[i] = [name |-> nm, type |-> ty, value |-> val]
                ELSE new[i] = old[i]
    ELSE IF Len(old) < MAX_VARIABLES
    THEN new = old \o <<[name |-> nm, type |-> ty, value |-> val]>>
    ELSE new = old

\* C13: on every store the program reaches, set_variable replaces the value
\* and type of a name already present where it stands and changes nothing
\* else, appends one entry for a new name, and leaves a store that already
\* holds MAX_VARIABLES entries unchanged for a new name.
C13_SetInPlaceAppendOrFull ==
    \A nm \in C13_Names : \A val \in C13_Values : \A ty \in C13_Types :
        C13_Outcome(variables, set_variable(variables, nm, val, ty), nm, val, ty)

\* C13 witness: a SET of a new name has met the full store
C13_Witness ==
    /\ ev.type = "done" /\ ev.cmd = "SET"
    /\ Len(variables) = MAX_VARIABLES
    /\ \A i \in 1 .. Len(variables) : variables[i].name # ev.line[2]

\* C14: when an invocation has finished, by fall-through or by RETURN, the
\* call stack is as deep as the invocation found it, at every nesting depth.
C14_DepthRestored ==
    ev.type = "fn_exit" => Len(call_stack) = ev.depth

\* a CALL line is about to invoke a registered function with a number of
\* arguments that differs from its parameter count
C15_Mismatch ==
    /\ AtStart /\ IsCall
    /\ lookup(functions, Tokens[2]) # 0
    /\ Len(Tokens) - 2 # Len(functions[lookup(functions, Tokens[2])].params)

\* C15: an invocation with the wrong number of arguments yields 0 without a
\* fault: no parameter is bound, no call frame pushed, no body line run, and
\* the variable store, the call stack and the in_function flag stay as they were.
C15_ArityMismatchInert ==
    [][C15_Mismatch =>
         /\ UNCHANGED <<variables, call_stack, in_function, functions, status>>
         /\ stack' = Return(stack)
         /\ ev'.type = "arity" /\ ev'.ret = 0]_vars

\* C15 witness: a CALL with the wrong number of arguments has returned, the
\* store holding variables the binding would have overwritten
C15_Witness ==
    /\ ev.type = "arity"
    /\ \E i \in 1 .. Len(variables) :
           variables[i].name \in Params(lookup(functions, ev.line[2]))

\* a line of the block assigns the variable var
C16_Assigns(block, var) ==
    \E k \in 1 .. Len(block) :
        /\ Len(block[k]) >= 2
        /\ toupper(block[k][1]) \in {"SET", "INPUT", "CONCAT", "FOR"}
        /\ block[k][2] = var

\* the values start, start + step, ... for which the continuation test holds,
\* at most k of them
RECURSIVE C16_Values(_, _, _)
C16_Values(loop, v, k) ==
    IF k = 0 \/ ~(IF loop.step > 0 THEN v <= loop.end ELSE v >= loop.end) THEN <<>>
    ELSE <<v>> \o C16_Values(loop, v + loop.step, k - 1)

\* C16: a FOR loop whose block does not assign the loop variable has run the
\* whole block once for each of start, start + step, start + 2 * step, ... in
\* that order, for as long as the value passes the test against end.
C16_ForValues ==
    (ev.type = "done" /\ ev.cmd = "FOR" /\ ~C16_Assigns(ev.block, ev.line[2]))
        => /\ ev.iters = C16_Values(ev.loop, ev.loop.start, MaxIters + 1)
           /\ ev.lines = Len(ev.iters) * Len(ev.block)

\* C17: the next value of a FOR loop is the value the store holds for the
\* loop variable after the block ran, plus the step.
C17_NextFromStore ==
    ev.type = "for_step"
        => ev.next = atof(get_variable(ev.before, ev.var)) + ev.step

\* the value of a WHILE line's condition in the store
C18_Cond(line, store) == evaluate_expression(while_cond(line), store).v

\* C18: the block of a WHILE loop starts only when the condition is non-zero
\* in the store as it is then, the first time included; the loop ends when
\* the condition is zero in the store as it is then; and the whole block has
\* run once for each test that was non-zero - not at all when the first was zero.
C18_WhileTestsFirst ==
    /\ (At("while_body") /\ Top.i = 0) => C18_Cond(Tokens, variables) # 0
    /\ (ev.type = "done" /\ ev.cmd = "WHILE")
          => /\ C18_Cond(ev.line, variables) = 0
             /\ \A k \in 1 .. Len(ev.iters) : ev.iters[k] # 0
             /\ ev.lines = Len(ev.iters) * Len(ev.block)

\* C18 witness: a loop has ended after two passes over a block whose line
\* changed the condition
C18_Witness ==
    /\ ev.type = "done" /\ ev.cmd = "WHILE"
    /\ Len(ev.iters) = 2 /\ ev.lines = 2
    /\ ev.block = <<L_inc_x>>

\* the number the store holds for x
C19_x(store) ==
    IF get_variable(store, "x") = NULL THEN 0 ELSE atof(get_variable(store, "x"))

\* C19: REPEAT with a count above zero dispatches its command count times,
\* each on the store the one before left (REPEAT 3 SET x = x + 1 raises x by
\* 3); with a count of zero or less it reports an error and dispatches nothing.
C19_RepeatCount ==
    [][/\ (AtStart /\ IsRepeat /\ atoi(Tokens[2]) <= 0)
            => /\ ev'.type = "usage" /\ ev'.cmd = "REPEAT"
               /\ stack' = Return(stack)
               /\ UNCHANGED variables
       /\ (ev'.type = "done" /\ ev'.cmd = "REPEAT")
            => /\ atoi(ev'.line[2]) > 0
               /\ ev'.lines = atoi(ev'.line[2])
               /\ ev'.line = L_repeat_3_inc
                     => C19_x(variables') = C19_x(ev'.snap.variables) + 3]_vars

\* C19 witness: REPEAT 3 SET x = x + 1 has finished on a store that held x
C19_Witness ==
    /\ ev.type = "done" /\ ev.cmd = "REPEAT" /\ ev.line = L_repeat_3_inc
    /\ get_variable(ev.snap.variables, "x") # NULL
    /\ C19_x(variables) = C19_x(ev.snap.variables) + 3

\* the scan the claim describes: the first THEN, the first ELSE, and the
\* first ENDIF at or after the THEN (0 for none)
C20_then(tokens) == First(Positions(tokens, "THEN", Len(tokens)))
C20_else(tokens) == First(Positions(tokens, "ELSE", Len(tokens)))
C20_endif(tokens) ==
    First({k \in Positions(tokens, "ENDIF", Len(tokens)) : k >= C20_then(tokens)})
C20_then_span(tokens) ==
    SubSeq(tokens, C20_then(tokens) + 1,
           (IF C20_else(tokens) = 0 THEN C20_endif(tokens) ELSE C20_else(tokens)) - 1)
C20_else_span(tokens) ==
    SubSeq(tokens, C20_else(tokens) + 1, C20_endif(tokens) - 1)
\* the step hands the command span to execute_line
C20_Dispatches(span) ==
    /\ Len(stack') = Len(stack) + 1
    /\ stack'[Len(stack')].line = span

\* C20: an IF line with a THEN and an ENDIF at or after it dispatches the span
\* after THEN exactly when the condition is non-zero, the span after ELSE
\* exactly when it is zero and there is an ELSE, and nothing otherwise; a
\* line with no THEN or no ENDIF reports a syntax error and dispatches nothing.
C20_IfSpans ==
    [][(AtStart /\ IsIf) =>
         IF C20_then(Tokens) = 0 \/ C20_endif(Tokens) = 0
         THEN /\ ev'.type = "usage" /\ ev'.cmd = "IF"
              /\ stack' = Return(stack)
         ELSE LET r == evaluate_expression(SubSeq(Tokens, 2, C20_then(Tokens) - 1),
                                           variables)
              IN IF r.fault THEN ev'.type = "fault"
                 ELSE IF r.v # 0 THEN C20_Dispatches(C20_then_span(Tokens))
                 ELSE IF C20_else(Tokens) # 0 THEN C20_Dispatches(C20_else_span(Tokens))
                 ELSE ev'.type = "done" /\ stack' = Return(stack)]_vars

\* the pieces of an expression of one-digit literals written without blanks
RECURSIVE C21_Split(_)
C21_Split(s) ==
    IF s = "" THEN <<>>
    ELSE IF strn(s, 2) \in {"==", "!=", "<=", ">="}
         THEN <<strn(s, 2)>> \o C21_Split(SubSeq(s, 3, Len(s)))
         ELSE <<char(s, 1)>> \o C21_Split(SubSeq(s, 2, Len(s)))

\* the pieces of the expression of a SET line
C21_Expr(line) ==
    IF Len(line) = 4 THEN C21_Split(line[4]) ELSE SubSeq(line, 4, Len(line))

\* the number of parentheses open before piece k
RECURSIVE C21_Depth(_, _)
C21_Depth(t, k) ==
    IF k <= 1 THEN 0
    ELSE C21_Depth(t, k - 1)
         + (IF t[k - 1] = "(" THEN 1 ELSE IF t[k - 1] = ")" THEN 0 - 1 ELSE 0)

\* every parenthesis has its partner
C21_Balanced(t) ==
    /\ \A k \in 1 .. Len(t) + 1 : C21_Depth(t, k) >= 0
    /\ C21_Depth(t, Len(t) + 1) = 0

\* the last operator of a level that stands outside all parentheses, 0 for none
C21_Last(t, ops) ==
    LET S == {k \in 1 .. Len(t) : t[k] \in ops /\ C21_Depth(t, k) = 0} IN
    IF S = {} THEN 0 ELSE CHOOSE k \in S : \A j \in S : j <= k

C21_Undefined == [def |-> FALSE, v |-> 0]
C21_Number(n) == [def |-> TRUE, v |-> n]
C21_Truth(b) == C21_Number(IF b THEN 1 ELSE 0)

\* one operator applied to the values of its operands; a quotient by zero, or
\* one that is no integer, is not a value
C21_Apply(op, l, r) ==
    IF ~l.def \/ ~r.def THEN C21_Undefined
    ELSE CASE op = "+" -> C21_Number(l.v + r.v)
           [] op = "-" -> C21_Number(l.v - r.v)
           [] op = "*" -> C21_Number(l.v * r.v)
           [] op = "/" -> IF r.v = 0 THEN C21_Undefined
                          ELSE IF Abs(l.v) % Abs(r.v) # 0 THEN C21_Undefined
                          ELSE C21_Number(Quotient(l.v, r.v))
           [] op = "<" -> C21_Truth(l.v < r.v)
           [] op = ">" -> C21_Truth(l.v > r.v)
           [] op = "<=" -> C21_Truth(l.v <= r.v)
           [] op = ">=" -> C21_Truth(l.v >= r.v)
           [] op = "==" -> C21_Truth(l.v = r.v)
           [] op = "!=" -> C21_Truth(l.v # r.v)

\* the value the grammar gives: an expression is split at the last operator
\* of its lowest level outside parentheses, which folds each level from the
\* left; below the operators stand a parenthesised expression or a literal
RECURSIVE C21_Value(_)
C21_SplitAt(t, k) ==
    C21_Apply(t[k], C21_Value(SubSeq(t, 1, k - 1)),
              C21_Value(SubSeq(t, k + 1, Len(t))))
C21_Value(t) ==
    IF C21_Last(t, CmpOps) # 0 THEN C21_SplitAt(t, C21_Last(t, CmpOps))
    ELSE IF C21_Last(t, AddOps) # 0 THEN C21_SplitAt(t, C21_Last(t, AddOps))
    ELSE IF C21_Last(t, MulOps) # 0 THEN C21_SplitAt(t, C21_Last(t, MulOps))
    ELSE IF t[1] = "(" THEN C21_Value(SubSeq(t, 2, Len(t) - 1))
    ELSE C21_Number(DigitVal[t[1]])

\* the line whose expression raised the fault
C21_Raiser == ev.stack[Len(ev.stack)].line

\* C21: an expression of integer literals, parentheses and binary operators
\* has the value the grammar comparison < additive < multiplicative < primary
\* gives it, each level folded from the left; a comparison yields 1 or 0; and
\* a fault is raised only where that value does not exist.
C21_GrammarValue ==
    /\ (ev.type = "done" /\ ev.cmd = "SET" /\ C21_Balanced(C21_Expr(ev.line)))
          => /\ C21_Value(C21_Expr(ev.line)).def
             /\ get_variable(variables, "x")
                    = format_g(C21_Value(C21_Expr(ev.line)).v)
             /\ C21_Last(C21_Expr(ev.line), CmpOps) # 0
                    => get_variable(variables, "x") \in {"0", "1"}
    /\ (ev.type = "fault" /\ C21_Balanced(C21_Expr(C21_Raiser)))
          => ~C21_Value(C21_Expr(C21_Raiser)).def

\* C21 witness: 1 + 2 * 2 has been evaluated to 5
C21_Witness ==
    /\ ev.type = "done" /\ ev.cmd = "SET"
    /\ ev.line = L_set_x(<<"1", "+", "2", "*", "2">>)
    /\ get_variable(variables, "x") = "5"

\* the parenthesis that closes the one at piece k, 0 for none
C22_Close(t, k) ==
    LET S == {j \in k + 1 .. Len(t) :
                 t[j] = ")" /\ C21_Depth(t, j + 1) = C21_Depth(t, k)}
    IN IF S = {} THEN 0 ELSE CHOOSE j \in S : \A i \in S : j <= i

\* the expression holds a division by the literal 0 or by a parenthesised
\* expression whose value is 0
C22_ZeroDivisor(t) ==
    \E k \in 1 .. Len(t) - 1 :
        /\ t[k] = "/"
        /\ \/ t[k + 1] = "0"
           \/ /\ t[k + 1] = "("
              /\ C22_Close(t, k + 1) # 0
              /\ C21_Value(SubSeq(t, k + 2, C22_Close(t, k + 1) - 1))
                     = C21_Number(0)

\* C22: no value is returned for an expression that holds a zero divisor or
\* a parenthesis without its partner: the SET line of such an expression
\* never completes its assignment.
C22_NoValueForFaulty ==
    (ev.type = "done" /\ ev.cmd = "SET")
        => /\ ~C22_ZeroDivisor(C21_Expr(ev.line))
           /\ C21_Balanced(C21_Expr(ev.line))

\* the store holds no variable of that name
C23_Unknown(name, store) == \A i \in 1 .. Len(store) : store[i].name # name

\* the name a word of a PRINT line refers to
C23_Name(tok) == IF char(tok, 1) = "$" THEN SubSeq(tok, 2, Len(tok)) ELSE tok

\* the words of an expression, each name the store does not hold replaced by 0
C23_Zeroed(words, store) ==
    [i \in 1 .. Len(words) |->
        IF char(words[i], 1) \in Lower /\ C23_Unknown(words[i], store)
        THEN "0" ELSE words[i]]

\* what PRINT is to show for one token
C23_Shown(tok, store) ==
    IF has_S_prefix(tok) THEN payload(tok) \o " "
    ELSE IF ~C23_Unknown(C23_Name(tok), store)
         THEN get_variable(store, C23_Name(tok)) \o " "
    ELSE IF char(tok, 1) = "$" THEN "[undefined] "
    ELSE tok \o " "

C24_Is(line, word) == Len(line) = 1 /\ toupper(line[1]) = word

\* the sentinel that ends the block a construct collects
C24_Sentinel(cmd) ==
    IF cmd = "WHILE" THEN "ENDWHILE"
    ELSE IF cmd = "FOR" THEN "ENDFOR"
    ELSE "CATCH"

\* C24: a block-collection loop stops at its sentinel in any letter case and
\* does not add it: no block of a WHILE, FOR or TRY holds its sentinel line,
\* no line skipped after a TRY body is ENDTRY, and no function body holds
\* ENDFUNCTION however it is spelled.
C24_SentinelEndsBlock ==
    /\ \A k \in Frames :
          stack[k].pc \in {"while_collect", "for_collect", "try_collect"}
            => \A j \in 1 .. Len(stack[k].block) :
                  ~C24_Is(stack[k].block[j], C24_Sentinel(stack[k].command))
    /\ ev.type = "skip" => ~C24_Is(ev.line, "ENDTRY")
    /\ \A f \in 1 .. Len(functions) :
          \A j \in 1 .. Len(functions[f].code_lines) :
             ~C24_Is(functions[f].code_lines[j], "ENDFUNCTION")

\* the ways execute_line reports a line it cannot dispatch
C25_DispatchFaults == {"unknown", "usage", "rejected"}

\* C25: a dispatch fault (unknown command, malformed command, RETURN outside
\* a function) raised by a line of a TRY body stops the body and takes the
\* TRY activation to its CATCH arm.
C25_DispatchFaultReachesCatch ==
    (ev.type \in C25_DispatchFaults /\ ev.parent = "try_block")
      => /\ stack # <<>>
         /\ Top.command = "TRY"
         /\ Top.pc \in {"catch_collect", "catch_block"}

\* a word of a condition with its leading $ taken as a reference to the variable
C26_Deref(words) ==
    [i \in 1 .. Len(words) |->
        IF char(words[i], 1) = "$" THEN SubSeq(words[i], 2, Len(words[i]))
        ELSE words[i]]

\* the value of a condition in which $name denotes the value of name
C26_Value(words, store) == evaluate_expression(C26_Deref(words), store)

\* C26: in the condition of IF and of WHILE, $name denotes the current value
\* of the variable: IF dispatches its THEN command when the condition so read
\* is non-zero, and WHILE runs its body once more exactly when it is.
C26_DollarNameInCondition ==
    [][/\ (AtStart /\ IsIf /\ then_idx(Tokens) # 0 /\ endif_idx(Tokens) # 0
           /\ else_idx(Tokens) # 0
           /\ C26_Value(SubSeq(Tokens, 2, then_idx(Tokens) - 1), variables).v # 0)
            => /\ ev'.type = "dispatch"
               /\ ev'.line = SubSeq(Tokens, then_idx(Tokens) + 1, else_idx(Tokens) - 1)
       /\ At("while_test")
            => (ev'.type = "iterate"
                  <=> C26_Value(while_cond(Tokens), variables).v # 0)]_vars

\* C27: a raised fault lands at a boundary whose activation is still on the
\* call chain: the run does not crash or hang, and the activations left
\* after the jump are the outer ones of those that were active when the
\* fault was raised.
C27_FaultLandsOnChain ==
    ev.type = "fault" =>
        /\ status \in {"running", "exited"}
        /\ Len(stack) <= Len(ev.stack)
        /\ \A k \in 1 .. Len(stack) :
              stack[k].kind = ev.stack[k].kind /\ stack[k].line = ev.stack[k].line

\* the function invocations among the activations
C28_Invocations(stk) == {k \in 1 .. Len(stk) : stk[k].kind = "fn"}

\* C28: a RETURN transfer lands in the innermost invocation that is still
\* active: while the active-function flag is set the return boundary is the
\* one of that invocation, and after a transfer the run goes on in it, the
\* activations above it gone and every outer invocation still on the chain.
C28_ReturnLandsInInnermost ==
    /\ in_function =>
          function_return_buf = [depth |-> ActiveFn(stack), at |-> "fn"]
    /\ ev.type = "return" =>
          /\ status = "running"
          /\ ev.fn # 0
          /\ Len(stack) = ev.fn
          /\ Top.kind = "fn" /\ Top.pc = "returned"

\* C28 witness: a RETURN dispatched by IF or REPEAT has made its transfer
\* into an invocation that was called from the body of another
C28_Witness ==
    /\ ev.type = "return" /\ ev.parent \in NestedPcs
    /\ status = "running"
    /\ Cardinality(C28_Invocations(stack)) = 2
    /\ Top.pc = "returned"

\* the positions of an activation that is running nested dispatches: the
\* sub-command of REPEAT, or the lines of a WHILE, FOR, TRY or function body
C29_Bodies == {"repeat", "while_body", "for_body", "try_block", "body"}

\* C29: a fault raised by a line that a REPEAT or a body dispatched abandons
\* that line only: the run goes on in the enclosing activation, which is
\* where the line would have returned to, with the rest of the chain as it
\* was.
C29_FaultAbandonsOneLine ==
    (ev.type = "fault" /\ Parent(ev.stack) \in C29_Bodies)
      => /\ status = "running"
         /\ stack = mark_try_faulted(Return(ev.stack), ev.stack)

\* the command text a line nests when it is IF 1 THEN cmd ENDIF or
\* REPEAT 1 cmd, as the line wrote it; the empty text otherwise
C30_Nested(line) ==
    IF Len(line) >= 5 /\ SubSeq(line, 1, 3) = <<"IF", "1", "THEN">>
       /\ line[Len(line)] = "ENDIF"
    THEN SubSeq(line, 4, Len(line) - 1)
    ELSE IF Len(line) >= 3 /\ SubSeq(line, 1, 2) = <<"REPEAT", "1">>
    THEN SubSeq(line, 3, Len(line))
    ELSE <<>>

\* the store after SET dispatched directly with the tokens toks
C30_Set(toks, store) ==
    IF has_S_prefix(toks[4]) /\ Len(toks) = 4
    THEN set_variable(store, toks[2], payload(toks[4]), "TYPE_STRING")
    ELSE set_variable(store, toks[2],
             format_g(evaluate_expression(SubSeq(toks, 4, Len(toks)), store).v),
             "TYPE_FLOAT")

\* the characters a sequence of printed pieces puts on the output
RECURSIVE C30_Text(_)
C30_Text(pieces) ==
    IF pieces = <<>> THEN "" ELSE pieces[1] \o C30_Text(Tail(pieces))

\* C30: a command dispatched as the THEN command of IF 1 or as the
\* sub-command of REPEAT 1 changes the store and prints as the same command
\* dispatched directly does: a SET leaves the store its direct dispatch would
\* leave, a PRINT leaves the store alone and prints the same characters.
C30_NestedDispatchTransparent ==
    [][(AtStart /\ Len(stack) >= 2
          /\ C30_Nested(stack[Len(stack) - 1].line) # <<>>)
        => LET toks == tokenize(C30_Nested(stack[Len(stack) - 1].line)) IN
           /\ toks[1] = "SET" =>
                 variables' = C30_Set(toks, variables)
           /\ toks[1] = "PRINT" =>
                 /\ variables' = variables
                 /\ ev'.type = "done"
                 /\ C30_Text(ev'.out) = C30_Text(print(toks, variables))]_vars

\* C31: the lines collected for a WHILE body, a FOR body, a TRY block or a
\* CATCH block are never more than MAX_BLOCK_LINES, the number of elements
\* of the array they are stored in.
C31_BlockWithinCapacity ==
    \A k \in Frames : Len(stack[k].block) <= MAX_BLOCK_LINES

\* some FOR line is in its loop
C32_Looping ==
    \E k \in Frames :
        /\ stack[k].command = "FOR"
        /\ stack[k].pc \in {"for_test", "for_body", "for_step", "for_body_on"}

\* C32: a FOR loop whose body leaves the loop variable alone comes to an
\* end, whatever its integer start, end and step, the step 0 included.
C32_ForTerminates == C32_Looping ~> ~C32_Looping

====
